---- MODULE Spec2Model ----
(***************************************************************************)
(* nano-start: the card-collection manager (CardManager of                 *)
(* components/card.js, with its two subclasses SiteManager and             *)
(* SearchEngineManager).  One manager instance is modelled: its in-memory  *)
(* items array, the cards mounted in its container, the value under its    *)
(* localStorage key, the drag session and the millisecond clock that       *)
(* Date.now() reads.                                                       *)
(*                                                                         *)
(* Text is modelled as a sequence of chunks (each chunk a piece of text    *)
(* that the code never splits): " " is one whitespace character,           *)
(* "https://" a scheme, "a.com" a host, "{query}" the placeholder token.   *)
(* trim, includes, replace, URL.canParse and URL.hostname are computed on  *)
(* these sequences.  Positions are 1-based; 0 stands for JavaScript's -1   *)
(* (findIndex) and null (querySelector, draggedElement).                   *)
(***************************************************************************)
EXTENDS Integers, Sequences, FiniteSets, TLC

VARIABLES
    kind,            \* "site" (SiteManager) or "engine" (SearchEngineManager)
    phase,           \* "constructed" | "ready" | "raised" (init() threw)
    itemsIsArray,    \* whether this.items is an Array (JSON.parse may yield another type)
    items,           \* this.items
    container,       \* children of this.container, in document order
    storage,         \* value under this.storageKey in localStorage
    draggedElement,  \* position in container of this.draggedElement, 0 = null
    drag,            \* drag-and-drop session: "none" | "own" | "foreign"
    now,             \* what Date.now() returns
    lastOp,          \* the handler that ran last, with its arguments
    log,             \* observable effects of the handler that ran last
    failures,        \* number of setItem calls that threw so far
    detachedTimers,  \* pending delete-revert timers of cards no longer in the container
    ops,             \* number of handlers run so far
    inputValue,      \* SearchManager: this.input.value
    debounceTimer,   \* SearchManager: this.debounceTimer, 0 = null
    searchTimers,    \* ids of the pending timers set by the search input listener
    results,         \* children of this.resultsContainer, in document order
    resultsHidden,   \* this.resultsContainer.hidden
    sites,           \* NanoStart (app.js): this.sites, each site by its id
    cards,           \* NanoStart: children of this.container, [id, index] per card
    draggedCard,     \* NanoStart: position in cards of this.draggedElement, 0 = null
    siteStore,       \* NanoStart: value under 'nano-start-sites' in localStorage
    controller,      \* navigator.serviceWorker.controller is not null
    requests,        \* one record per click on the clear-cache button
    listeners,       \* requests whose handler is a 'message' listener of navigator.serviceWorker
    timeouts,        \* requests whose 5-second timer is pending
    toWorker,        \* CLEAR_ICON_CACHE messages the service worker has not handled yet
    toClient         \* replies posted by the service worker and not delivered yet

searchVars == <<inputValue, debounceTimer, searchTimers, results, resultsHidden>>

appVars == <<sites, cards, draggedCard, siteStore>>

cacheVars == <<controller, requests, listeners, timeouts, toWorker, toClient>>

vars == <<kind, phase, itemsIsArray, items, container, storage, draggedElement,
          drag, now, lastOp, log, failures, detachedTimers, ops,
          inputValue, debounceTimer, searchTimers, results, resultsHidden,
          sites, cards, draggedCard, siteStore,
          controller, requests, listeners, timeouts, toWorker, toClient>>

----------------------------------------------------------------------------
(* Bounds of the model *)

MaxItems == 3
MaxStored == 2
MaxTicks == 1
MaxImport == 2
MaxWriteFailures == 1
MaxOps == 4
MaxSites == 3
MaxStoredSites == 2
MaxClicks == 2

----------------------------------------------------------------------------
(* Text *)

Space == " "
QueryToken == "{query}"
Scheme == "https://"
Hosts == {"a.com", "b.org", "example.org", "example.com",
          "www.google.com", "www.bing.com", "duckduckgo.com"}

\* String.prototype.trim: strips leading and trailing whitespace.
RECURSIVE TrimStart(_)
TrimStart(s) ==
    IF s # <<>> /\ Head(s) = Space THEN TrimStart(Tail(s)) ELSE s

RECURSIVE TrimEnd(_)
TrimEnd(s) ==
    IF s # <<>> /\ s[Len(s)] = Space THEN TrimEnd(SubSeq(s, 1, Len(s) - 1)) ELSE s

TrimStartOnly(s) == TrimStart(s)
Trim(s) == TrimEnd(TrimStart(s))

\* String.prototype.includes
Includes(s, tok) == \E i \in 1..Len(s) : s[i] = tok

\* String.prototype.replace with a string pattern: first occurrence only.
Replace(s, tok, repl) ==
    IF Includes(s, tok)
    THEN LET i == CHOOSE j \in 1..Len(s) :
                      s[j] = tok /\ \A h \in 1..(j - 1) : s[h] # tok
         IN  SubSeq(s, 1, i - 1) \o <<repl>> \o SubSeq(s, i + 1, Len(s))
    ELSE s

\* URL.canParse(url) with no base: the parser strips surrounding whitespace,
\* then needs a scheme followed by a non-empty host without whitespace.
CanParse(s) ==
    LET t == Trim(s)
    IN  /\ Len(t) >= 2
        /\ t[1] = Scheme
        /\ t[2] \in Hosts

\* new URL(url).hostname, for a url that parses.
Hostname(s) == <<Trim(s)[2]>>

\* JavaScript truthiness of a string: non-empty.
Truthy(s) == s # <<>>

----------------------------------------------------------------------------
(* Items and the per-collection configuration *)

Item(id, name, url, icon) == [id |-> id, name |-> name, url |-> url, icon |-> icon]

\* The default icon of importFromJSON.
GlobeIcon == "globe"

getPlaceholderItemEmptyName(k) ==
    [name |-> <<>>, url |-> <<Scheme, "example.org", "/", QueryToken>>, icon |-> "globe"]

\* SiteManager.getPlaceholderItem / SearchEngineManager.getPlaceholderItem
getPlaceholderItem(k) ==
    IF k = "site"
    THEN [name |-> <<"New Site">>,
          url |-> <<Scheme, "example.org", "/">>,
          icon |-> "globe"]
    ELSE [name |-> <<"New Search Engine">>,
          url |-> <<Scheme, "example.com", "/search?q=", QueryToken>>,
          icon |-> "magnifier-right"]

DEFAULT_SEARCH_ENGINES ==
    << Item("google", <<"Google">>,
            <<Scheme, "www.google.com", "/search?q=", QueryToken>>, "magnifier-left"),
       Item("bing", <<"Bing">>,
            <<Scheme, "www.bing.com", "/search?q=", QueryToken>>, "blue-circle"),
       Item("duckduckgo", <<"DuckDuckGo">>,
            <<Scheme, "duckduckgo.com", "/?q=", QueryToken>>, "duck") >>

\* SiteManager.getDefaultItems / SearchEngineManager.getDefaultItems
getDefaultItems(k) == IF k = "site" THEN <<>> ELSE DEFAULT_SEARCH_ENGINES

validateUrlLax(k, url) == [ok |-> TRUE, alerts |-> <<>>]

validateUrlParseOnly(k, url) ==
    [ok |-> CanParse(Replace(url, QueryToken, "test")), alerts |-> <<>>]

\* SiteManager.validateUrl / SearchEngineManager.validateUrl: the verdict and
\* the alerts raised while reaching it.
validateUrl(k, url) ==
    IF k = "site"
    THEN IF ~CanParse(url)
         THEN [ok |-> FALSE, alerts |-> <<"alert: Please enter a valid URL">>]
         ELSE [ok |-> TRUE, alerts |-> <<>>]
    ELSE IF ~Includes(url, QueryToken)
         THEN [ok |-> FALSE, alerts |-> <<"alert: Search URL must contain {query} placeholder.">>]
         ELSE IF ~CanParse(Replace(url, QueryToken, "test"))
              THEN [ok |-> FALSE, alerts |-> <<>>]
              ELSE [ok |-> TRUE, alerts |-> <<>>]

\* CardManager.formatUrl (sites: hostname, or the url itself when it does not
\* parse) / SearchEngineManager.formatUrl (placeholder shown as ...).
formatUrl(k, url) ==
    IF k = "site"
    THEN IF CanParse(url) THEN Hostname(url) ELSE url
    ELSE Replace(url, QueryToken, "...")

----------------------------------------------------------------------------
(* Cards *)

\* card.href: SiteManager cards are <a href=item.url>, engine cards are <div>.
NoHref == <<"undefined">>

\* CardManager.createCard (with createCardElement, createIconElement,
\* createInfoSection, createActionsDiv): a card in view mode.
createCard(k, item) ==
    [id       |-> item.id,                 \* card.dataset.id
     editing  |-> FALSE,                   \* class "editing"
     name     |-> item.name,               \* .site-name value
     url      |-> formatUrl(k, item.url),  \* .site-url value
     icon     |-> item.icon,               \* .site-icon content
     href     |-> IF k = "site" THEN item.url ELSE NoHref,
     armed    |-> FALSE,                   \* .delete-btn has class "delete-confirm"
     timer    |-> FALSE,                   \* card.deleteTimeoutId is a pending timer
     dragging |-> FALSE,                   \* class "dragging"
     dragOver |-> FALSE]                   \* class "drag-over"

setCardEditingKeepFields(k, card, item, enable) ==
    [card EXCEPT !.editing = enable]

setCardEditingRevertIcon(k, card, item, enable) ==
    [card EXCEPT !.editing = enable,
                 !.name = item.name,
                 !.url = IF enable THEN item.url ELSE formatUrl(k, item.url),
                 !.icon = IF enable THEN @ ELSE GlobeIcon]

\* CardManager.setCardEditing
setCardEditing(k, card, item, enable) ==
    [card EXCEPT !.editing = enable,
                 !.name = item.name,
                 !.url = IF enable THEN item.url ELSE formatUrl(k, item.url)]

clearDeleteConfirmationKeepTimer(card) ==
    [card EXCEPT !.armed = FALSE]

clearDeleteConfirmationKeepArmed(card) ==
    [card EXCEPT !.timer = FALSE]

\* CardManager.clearDeleteConfirmation
clearDeleteConfirmation(card) ==
    [card EXCEPT !.armed = FALSE, !.timer = FALSE]

\* this.container.querySelector(`[data-id="${itemId}"]`): the first card in
\* document order with that data-id, 0 when there is none.
querySelector(cont, itemId) ==
    IF \E i \in 1..Len(cont) : cont[i].id = itemId
    THEN CHOOSE i \in 1..Len(cont) :
             cont[i].id = itemId /\ \A j \in 1..(i - 1) : cont[j].id # itemId
    ELSE 0

\* this.items.findIndex((s) => s.id === itemId), 0 for -1.
findIndex(its, itemId) ==
    IF \E i \in 1..Len(its) : its[i].id = itemId
    THEN CHOOSE i \in 1..Len(its) :
             its[i].id = itemId /\ \A j \in 1..(i - 1) : its[j].id # itemId
    ELSE 0

\* Array.prototype.splice(i, 1) and splice(i, 0, e), on 1-based positions.
RemoveAt(s, i) == SubSeq(s, 1, i - 1) \o SubSeq(s, i + 1, Len(s))
InsertAt(s, i, e) == SubSeq(s, 1, i - 1) \o <<e>> \o SubSeq(s, i, Len(s))

renderItemsArmed(k, its) ==
    [i \in 1..Len(its) |-> [createCard(k, its[i]) EXCEPT !.armed = TRUE]]

\* CardManager.renderItems: the container is emptied and one new card per item
\* is appended, in items order.
renderItems(k, its) == [i \in 1..Len(its) |-> createCard(k, its[i])]

----------------------------------------------------------------------------
(* Storage *)

\* localStorage.getItem gives null for a missing key, else the stored text.
\* The stored text is kept by what JSON.parse makes of it.
StoredAbsent == [tag |-> "absent", items |-> <<>>]
StoredText(tag) == [tag |-> tag, items |-> <<>>]
\* JSON.stringify(this.items)
Stringify(its) == [tag |-> "array", items |-> its]

\* Tags of stored texts that are not a JSON array.
NonArrayJSONTags == {"null", "number", "string", "object"}
BadTextTags == {"not-json"}

\* CardManager.loadItems: what this.items becomes.
loadItems(k, stored) ==
    IF stored.tag = "absent"
    THEN \* getItem returned null: falsy
         [isArray |-> TRUE, items |-> getDefaultItems(k), errors |-> <<>>]
    ELSE IF stored.tag = "not-json"
    THEN \* JSON.parse throws, caught
         [isArray |-> TRUE, items |-> getDefaultItems(k),
          errors |-> <<"console.error: Error loading items">>]
    ELSE IF stored.tag = "array"
    THEN [isArray |-> TRUE, items |-> stored.items, errors |-> <<>>]
    ELSE \* JSON.parse returns null, a number, a string or an object
         [isArray |-> FALSE, items |-> <<>>, errors |-> <<>>]

\* An effect a handler has on its surroundings.
Effect(type, its) == [type |-> type, items |-> its]

saveItemsLogNoEvent(its, ok) == <<Effect("setItem", its)>>

saveItemsLogRethrow(its, ok) ==
    <<Effect("setItem", its)>>
    \o (IF ok THEN <<Effect("itemsUpdated", its)>>
        ELSE <<Effect("throw QuotaExceededError", <<>>)>>)

saveItemsLogQuietOnFailure(its, ok) ==
    <<Effect("setItem", its)>>
    \o (IF ok THEN <<Effect("itemsUpdated", its)>>
        ELSE <<Effect("console.error: Error saving items", <<>>)>>)

\* CardManager.saveItems: setItem (ok = it did not throw), then the event.
saveItemsLog(its, ok) ==
    <<Effect("setItem", its)>>
    \o (IF ok THEN <<>> ELSE <<Effect("console.error: Error saving items", <<>>)>>)
    \o <<Effect("itemsUpdated", its)>>

saveItemsStorage(stored, its, ok) == IF ok THEN Stringify(its) ELSE stored

\* Outcomes of a setItem call: TRUE = stored, FALSE = it threw.
WriteOutcomes == IF failures < MaxWriteFailures THEN BOOLEAN ELSE {TRUE}

\* The state left by saveItems() called with this.items = its.
Saved(its, ok) ==
    /\ storage' = saveItemsStorage(storage, its, ok)
    /\ log' = saveItemsLog(its, ok)
    /\ failures' = IF ok THEN failures ELSE failures + 1

\* The state left by a handler that reached saveItems() iff wrote.
SavedIf(wrote, its, ok, effects) ==
    /\ storage' = IF wrote THEN saveItemsStorage(storage, its, ok) ELSE storage
    /\ log' = effects
    /\ failures' = IF wrote /\ ~ok THEN failures + 1 ELSE failures

Alerts(msgs) == [i \in 1..Len(msgs) |-> Effect(msgs[i], <<>>)]

Op(name, card, arg) == [op |-> name, card |-> card, arg |-> arg]

----------------------------------------------------------------------------
(* Initial states: a manager just constructed over some stored value *)

SampleStored(k) ==
    IF k = "site"
    THEN << Item("1", <<"A">>, <<Scheme, "a.com", "/">>, "star"),
            Item("2", <<"B">>, <<Scheme, "b.org", "/">>, "globe"),
            Item("3", <<"A">>, <<Scheme, "b.org", "/x">>, "star") >>
    ELSE << Item("1", <<"A">>, <<Scheme, "a.com", "/?q=", QueryToken>>, "star"),
            Item("2", <<"B">>, <<Scheme, "b.org", "/?q=", QueryToken>>, "globe"),
            Item("3", <<"A">>, <<Scheme, "b.org", "/s/", QueryToken>>, "star") >>

StoredValues(k) ==
    {StoredAbsent}
    \cup {StoredText(t) : t \in BadTextTags \cup NonArrayJSONTags}
    \cup {Stringify(SubSeq(SampleStored(k), 1, n)) :
              n \in 0..(IF MaxStored < 3 THEN MaxStored ELSE 3)}

\* SearchManager's constructor: no timer yet; the input is empty and the
\* result list is empty and hidden.
SearchConstructed ==
    /\ inputValue = <<>>
    /\ debounceTimer = 0
    /\ searchTimers = {}
    /\ results = <<>>
    /\ resultsHidden = TRUE

\* NanoStart's constructor (app.js): this.sites = [], this.draggedElement =
\* null, before init() has loaded anything.
NanoConstructed ==
    /\ sites = <<>>
    /\ cards = <<>>
    /\ draggedCard = 0
    /\ siteStore = StoredAbsent

\* The settings page before the clear-cache button was ever clicked.
NoCacheRequest ==
    /\ controller = FALSE
    /\ requests = <<>>
    /\ listeners = {}
    /\ timeouts = {}
    /\ toWorker = 0
    /\ toClient = <<>>

Init ==
    /\ kind \in {"site", "engine"}
    /\ phase = "constructed"
    /\ itemsIsArray = TRUE
    /\ items = <<>>
    /\ container = <<>>
    /\ storage \in StoredValues(kind)
    /\ draggedElement = 0
    /\ drag = "none"
    /\ now = MaxStored + 1
    /\ lastOp = Op("constructor", 0, <<>>)
    /\ log = <<>>
    /\ failures = 0
    /\ detachedTimers = 0
    /\ ops = 0
    /\ SearchConstructed
    /\ NanoConstructed
    /\ NoCacheRequest

----------------------------------------------------------------------------
(* Handlers *)

Ready == phase = "ready" /\ ops < MaxOps
\* Device input events are suppressed while a drag-and-drop is in progress.
Idle == Ready /\ drag = "none"

\* CardManager.init: loadItems, then renderItems, whose this.items.forEach
\* throws a TypeError when this.items is not an array.
init ==
    /\ phase = "constructed"
    /\ LET l == loadItems(kind, storage)
       IN  /\ itemsIsArray' = l.isArray
           /\ items' = l.items
           /\ phase' = IF l.isArray THEN "ready" ELSE "raised"
           /\ container' = IF l.isArray THEN renderItems(kind, l.items) ELSE <<>>
           /\ log' = Alerts(l.errors)
                     \o (IF l.isArray THEN <<>> ELSE <<Effect("throw TypeError", <<>>)>>)
    /\ lastOp' = Op("init", 0, <<>>)
    /\ ops' = ops
    /\ UNCHANGED <<kind, storage, draggedElement, drag, now, failures, detachedTimers>>
    /\ UNCHANGED <<searchVars, appVars, cacheVars>>

\* Date.now(): some reading not before the previous one.
Readings == now..(MaxStored + 1 + MaxTicks)

\* CardManager.addNewItem
addNewItem ==
    /\ Idle
    /\ Len(items) < MaxItems
    /\ \E t \in Readings, ok \in WriteOutcomes :
         LET p == getPlaceholderItem(kind)
             item == Item(ToString(t), p.name, p.url, p.icon)
             card == createCard(kind, item)
         IN  /\ now' = t
             /\ items' = Append(items, item)
             /\ Saved(items', ok)
             /\ container' = Append(container, setCardEditing(kind, card, item, TRUE))
    /\ lastOp' = Op("addNewItem", Len(container) + 1, <<>>)
    /\ ops' = ops + 1
    /\ UNCHANGED <<kind, phase, itemsIsArray, draggedElement, drag, detachedTimers>>
    /\ UNCHANGED <<searchVars, appVars, cacheVars>>

\* CardManager.startEditing
startEditing(cont, its, itemId) ==
    LET q == querySelector(cont, itemId)
        i == findIndex(its, itemId)
    IN  IF q = 0 \/ i = 0
        THEN cont
        ELSE [cont EXCEPT ![q] = setCardEditing(kind, @, its[i], TRUE)]

\* CardManager.saveEdit: the items, the container, the effects and, when
\* saveItems was reached, whether setItem succeeded (ok).
saveEdit(cont, its, itemId, ok) ==
    LET q == querySelector(cont, itemId)
        name == Trim(cont[q].name)
        url == Trim(cont[q].url)
        v == validateUrl(kind, url)
        i == findIndex(its, itemId)
        saved == [its EXCEPT ![i].name = name, ![i].url = url]
    IN  IF ~Truthy(name) \/ ~Truthy(url)
        THEN [items |-> its, container |-> cont, wrote |-> FALSE,
              log |-> Alerts(<<"alert: Name and URL are required.">>)]
        ELSE IF ~v.ok
        THEN [items |-> its, container |-> cont, wrote |-> FALSE,
              log |-> Alerts(v.alerts)]
        ELSE IF i = 0
        THEN [items |-> its, container |-> cont, wrote |-> FALSE, log |-> <<>>]
        ELSE [items |-> saved,
              container |->
                  [cont EXCEPT ![q] =
                      [setCardEditing(kind, @, saved[i], FALSE)
                          EXCEPT !.href = IF kind = "site" THEN url ELSE @]],
              wrote |-> TRUE,
              log |-> saveItemsLog(saved, ok)]

\* CardManager.cancelEdit
cancelEdit(cont, its, itemId) ==
    LET i == findIndex(its, itemId)
        q == querySelector(cont, itemId)
    IN  IF i = 0
        THEN cont
        ELSE [cont EXCEPT ![q] = setCardEditing(kind, @, its[i], FALSE)]

\* Click on the edit button of the card at position k: saveEdit when that card
\* is in editing mode, startEditing otherwise.
EditBtnClick(k) ==
    /\ Idle
    /\ k \in 1..Len(container)
    /\ IF container[k].editing
       THEN \E ok \in WriteOutcomes :
              LET r == saveEdit(container, items, container[k].id, ok)
              IN  /\ r.wrote \/ ok
                  /\ items' = r.items
                  /\ container' = r.container
                  /\ SavedIf(r.wrote, r.items, ok, r.log)
                  /\ lastOp' = Op("saveEdit", k, <<>>)
       ELSE /\ container' = startEditing(container, items, container[k].id)
            /\ log' = <<>>
            /\ lastOp' = Op("startEditing", k, <<>>)
            /\ UNCHANGED <<items, storage, failures>>
    /\ ops' = ops + 1
    /\ UNCHANGED <<kind, phase, itemsIsArray, draggedElement, drag, now, detachedTimers>>
    /\ UNCHANGED <<searchVars, appVars, cacheVars>>

\* Keys a keydown event on a card may carry: key and shiftKey.
Keys == { <<"Escape", "">>, <<"Enter", "">>, <<"Enter", "shift">>, <<"a", "">> }

\* Effects of clearDeleteConfirmation(card): clearTimeout is called when
\* card.deleteTimeoutId is set.
clearDeleteConfirmationLog(card) ==
    IF card.timer THEN <<Effect("clearTimeout", <<>>)>> ELSE <<>>

\* Whether the fields of an editing card differ from the item of its id.
Dirty(card, its) ==
    LET i == findIndex(its, card.id)
    IN  /\ card.editing
        /\ i # 0
        /\ card.name # its[i].name \/ card.url # its[i].url

\* keydown on the card at position k (listener of createCard).  lastOp.arg
\* is the key, the shift state and whether the card held uncommitted text.
KeyDown(k, key) ==
    /\ Idle
    /\ k \in 1..Len(container)
    /\ LET isEditing == container[k].editing
           cleared == [container EXCEPT ![k] = clearDeleteConfirmation(@)]
           clearedLog == clearDeleteConfirmationLog(container[k])
           id == container[k].id
       IN  IF isEditing /\ key[1] = "Escape"
           THEN /\ container' = cancelEdit(cleared, items, id)
                /\ log' = clearedLog
                /\ UNCHANGED <<items, storage, failures>>
           ELSE IF isEditing /\ key[1] = "Enter" /\ key[2] # "shift"
           THEN \E ok \in WriteOutcomes :
                  LET r == saveEdit(cleared, items, id, ok)
                  IN  /\ r.wrote \/ ok
                      /\ items' = r.items
                      /\ container' = r.container
                      /\ SavedIf(r.wrote, r.items, ok, clearedLog \o r.log)
           ELSE /\ container' = cleared
                /\ log' = clearedLog
                /\ UNCHANGED <<items, storage, failures>>
    /\ lastOp' = Op("keydown", k,
                    key \o <<IF Dirty(container[k], items) THEN "dirty" ELSE "">>)
    /\ ops' = ops + 1
    /\ UNCHANGED <<kind, phase, itemsIsArray, draggedElement, drag, now, detachedTimers>>
    /\ UNCHANGED <<searchVars, appVars, cacheVars>>

\* Texts a user puts into the name field and into the url field.
NameInputs == { <<Space, "C", Space>>, <<Space>> }

UrlInputs(k) ==
    IF k = "site"
    THEN { <<Scheme, "b.org", "/">>, <<"b.org">>, <<>> }
    ELSE { <<Scheme, "b.org", "/?q=", QueryToken>>,
           <<Scheme, "b.org", "/?q=", "cats">>,
           <<"b.org", "/?q=", QueryToken>>,
           <<>> }

\* The user changes the text of a field of the card at position k; the
\* fields are read-only unless the card is in editing mode.
Input(k, field, text) ==
    /\ Idle
    /\ k \in 1..Len(container)
    /\ container[k].editing
    /\ field \in {"name", "url"}
    /\ container' = IF field = "name"
                    THEN [container EXCEPT ![k].name = text]
                    ELSE [container EXCEPT ![k].url = text]
    /\ container' # container
    /\ log' = <<>>
    /\ lastOp' = Op("input", k, <<>>)
    /\ ops' = ops + 1
    /\ UNCHANGED <<kind, phase, itemsIsArray, items, storage, draggedElement, drag,
                   now, failures, detachedTimers>>
    /\ UNCHANGED <<searchVars, appVars, cacheVars>>

\* CardManager.deleteItem: items, container, effects; deleted when an item
\* was removed, timers the pending timers of the card taken out.
deleteItem(cont, its, itemId, ok) ==
    LET q == querySelector(cont, itemId)
        i == findIndex(its, itemId)
    IN  IF q = 0
        THEN [items |-> its, container |-> cont, wrote |-> FALSE, log |-> <<>>,
              timers |-> 0]
        ELSE IF i = 0
        THEN [items |-> its, container |-> RemoveAt(cont, q), wrote |-> FALSE,
              log |-> <<>>, timers |-> IF cont[q].timer THEN 1 ELSE 0]
        ELSE [items |-> RemoveAt(its, i), container |-> RemoveAt(cont, q),
              wrote |-> TRUE, log |-> saveItemsLog(RemoveAt(its, i), ok),
              timers |-> IF cont[q].timer THEN 1 ELSE 0]

\* Click on the delete button of the card at position k.
DeleteBtnClick(k) ==
    /\ Idle
    /\ k \in 1..Len(container)
    /\ IF container[k].armed
       THEN \E ok \in WriteOutcomes :
              LET r == deleteItem(container, items, container[k].id, ok)
              IN  /\ r.wrote \/ ok
                  /\ items' = r.items
                  /\ container' = r.container
                  /\ SavedIf(r.wrote, r.items, ok, r.log)
                  /\ detachedTimers' = detachedTimers + r.timers
                  /\ lastOp' = Op("deleteItem", k, <<>>)
       ELSE /\ container' = [container EXCEPT ![k].armed = TRUE, ![k].timer = TRUE]
            /\ detachedTimers' =
                   detachedTimers + (IF container[k].timer THEN 1 ELSE 0)
            /\ log' = <<>>
            /\ lastOp' = Op("armDelete", k, <<>>)
            /\ UNCHANGED <<items, storage, failures>>
    /\ ops' = ops + 1
    /\ UNCHANGED <<kind, phase, itemsIsArray, draggedElement, drag, now>>
    /\ UNCHANGED <<searchVars, appVars, cacheVars>>

\* The 3000 ms timer set by the delete button fires for the mounted card at
\* position k: clearDeleteConfirmation(card).
TimerFire(k) ==
    /\ phase = "ready"
    /\ k \in 1..Len(container)
    /\ container[k].timer
    /\ container' = [container EXCEPT ![k] = clearDeleteConfirmation(@)]
    /\ log' = clearDeleteConfirmationLog(container[k])
    /\ lastOp' = Op("deleteTimeout", k, <<>>)
    /\ UNCHANGED <<kind, phase, itemsIsArray, items, storage, draggedElement, drag,
                   now, failures, detachedTimers, ops>>
    /\ UNCHANGED <<searchVars, appVars, cacheVars>>

\* The same timer fires for a card that has left the container.
DetachedTimerFire ==
    /\ phase = "ready"
    /\ detachedTimers > 0
    /\ detachedTimers' = detachedTimers - 1
    /\ log' = <<>>
    /\ lastOp' = Op("detachedTimeout", 0, <<>>)
    /\ UNCHANGED <<kind, phase, itemsIsArray, items, container, storage,
                   draggedElement, drag, now, failures, ops>>
    /\ UNCHANGED <<searchVars, appVars, cacheVars>>

\* What prompt() returns to the icon click handler: <<>> stands for null
\* (cancelled) and for the empty string, both falsy.
IconInputs == { <<"rocket">>, <<>> }

\* Click on the icon of the card at position k (listener of createIconElement).
IconClick(k, newIcon) ==
    /\ Idle
    /\ k \in 1..Len(container)
    /\ LET i == findIndex(items, container[k].id)
       IN  IF container[k].editing /\ Truthy(newIcon) /\ i # 0
           THEN \E ok \in WriteOutcomes :
                  /\ items' = [items EXCEPT ![i].icon = newIcon[1]]
                  /\ Saved(items', ok)
                  /\ container' = [container EXCEPT ![k].icon = newIcon[1]]
           ELSE /\ log' = <<>>
                /\ UNCHANGED <<items, storage, container, failures>>
    /\ lastOp' = Op("iconClick", k, <<>>)
    /\ ops' = ops + 1
    /\ UNCHANGED <<kind, phase, itemsIsArray, draggedElement, drag, now, detachedTimers>>
    /\ UNCHANGED <<searchVars, appVars, cacheVars>>

----------------------------------------------------------------------------
(* Drag and drop *)

\* CardManager.handleDragStart, from the drag handle of the card at position k.
DragStart(k) ==
    /\ Idle
    /\ k \in 1..Len(container)
    /\ container' = [container EXCEPT ![k].dragging = TRUE]
    /\ draggedElement' = k
    /\ drag' = "own"
    /\ log' = <<>>
    /\ lastOp' = Op("dragstart", k, <<>>)
    /\ ops' = ops + 1
    /\ UNCHANGED <<kind, phase, itemsIsArray, items, storage, now, failures,
                   detachedTimers>>
    /\ UNCHANGED <<searchVars, appVars, cacheVars>>

\* A drag that started outside this container (the other manager's card, a
\* file, selected text) comes over the page: no handler of this manager runs.
ForeignDragStart ==
    /\ Idle
    /\ Len(container) > 0
    /\ drag' = "foreign"
    /\ log' = <<>>
    /\ lastOp' = Op("foreignDragStart", 0, <<>>)
    /\ ops' = ops + 1
    /\ UNCHANGED <<kind, phase, itemsIsArray, items, container, storage,
                   draggedElement, now, failures, detachedTimers>>
    /\ UNCHANGED <<searchVars, appVars, cacheVars>>

\* CardManager.handleDragEnter on the card at position k.
DragEnter(k) ==
    /\ Ready
    /\ drag \in {"own", "foreign"}
    /\ k \in 1..Len(container)
    /\ container' = IF k # draggedElement
                    THEN [container EXCEPT ![k].dragOver = TRUE]
                    ELSE container
    /\ log' = <<>>
    /\ lastOp' = Op("dragenter", k, <<>>)
    /\ ops' = ops + 1
    /\ UNCHANGED <<kind, phase, itemsIsArray, items, storage, draggedElement, drag,
                   now, failures, detachedTimers>>
    /\ UNCHANGED <<searchVars, appVars, cacheVars>>

\* CardManager.handleDragLeave on the card at position k; inside tells whether
\* e.relatedTarget is within the card.
DragLeave(k, inside) ==
    /\ Ready
    /\ drag \in {"own", "foreign"}
    /\ k \in 1..Len(container)
    /\ container' = IF ~inside
                    THEN [container EXCEPT ![k].dragOver = FALSE]
                    ELSE container
    /\ log' = <<>>
    /\ lastOp' = Op("dragleave", k, <<>>)
    /\ ops' = ops + 1
    /\ UNCHANGED <<kind, phase, itemsIsArray, items, storage, draggedElement, drag,
                   now, failures, detachedTimers>>
    /\ UNCHANGED <<searchVars, appVars, cacheVars>>

\* targetCard.before(draggedCard): the card at position d is moved to stand
\* immediately before the card at position t.
MoveBefore(cont, d, t) ==
    LET rest == RemoveAt(cont, d)
    IN  InsertAt(rest, IF d < t THEN t - 1 ELSE t, cont[d])

MoveItemNoAdjust(its, draggedIndex, targetIndex) ==
    InsertAt(RemoveAt(its, draggedIndex), targetIndex, its[draggedIndex])

\* The array part of handleDrop: splice out draggedIndex, splice in at
\* newTargetIndex.
MoveItem(its, draggedIndex, targetIndex) ==
    LET movedItem == its[draggedIndex]
        newTargetIndex == IF draggedIndex < targetIndex
                          THEN targetIndex - 1
                          ELSE targetIndex
    IN  InsertAt(RemoveAt(its, draggedIndex), newTargetIndex, movedItem)

dropReturnsEarlyNotOnSelf(cont, its, d, k) ==
    \/ d = 0
    \/ findIndex(its, cont[d].id) = 0
    \/ findIndex(its, cont[k].id) = 0

\* The two early returns of handleDrop: no dragged card of this manager
\* (draggedElement is null), the target is the dragged card, or the id of
\* either card is not in this.items.
dropReturnsEarly(cont, its, d, k) ==
    \/ d = 0
    \/ k = d
    \/ findIndex(its, cont[d].id) = 0
    \/ findIndex(its, cont[k].id) = 0

\* CardManager.handleDrop on the card at position k.
Drop(k) ==
    /\ Ready
    /\ drag \in {"own", "foreign"}
    /\ k \in 1..Len(container)
    /\ LET d == draggedElement
           draggedIndex == findIndex(items, container[d].id)
           targetIndex == findIndex(items, container[k].id)
       IN  IF dropReturnsEarly(container, items, d, k)
           THEN /\ log' = <<>>
                /\ UNCHANGED <<items, container, storage, draggedElement, failures>>
           ELSE \E ok \in WriteOutcomes :
                  LET dNew == IF d < k THEN k - 1 ELSE k
                      kNew == IF d < k THEN k ELSE k + 1
                  IN  /\ items' = MoveItem(items, draggedIndex, targetIndex)
                      /\ Saved(items', ok)
                      /\ container' = [MoveBefore(container, d, k)
                                          EXCEPT ![kNew].dragOver = FALSE]
                      /\ draggedElement' = dNew
    \* the drop ends the drag; dragend follows for a drag of this manager
    /\ drag' = IF drag = "own" THEN "dropped" ELSE "none"
    /\ lastOp' = Op("drop", k, IF draggedElement = 0 THEN <<>>
                               ELSE <<container[draggedElement].id>>)
    /\ ops' = ops + 1
    /\ UNCHANGED <<kind, phase, itemsIsArray, now, detachedTimers>>
    /\ UNCHANGED <<searchVars, appVars, cacheVars>>

\* CardManager.handleDragEnd, dispatched at the drag handle the drag began on.
DragEnd ==
    /\ Ready
    /\ drag \in {"own", "dropped"}
    /\ container' = [i \in 1..Len(container) |->
                        [container[i] EXCEPT !.dragging = FALSE, !.dragOver = FALSE]]
    /\ draggedElement' = 0
    /\ drag' = "none"
    /\ log' = <<>>
    /\ lastOp' = Op("dragend", 0, <<>>)
    /\ ops' = ops + 1
    /\ UNCHANGED <<kind, phase, itemsIsArray, items, storage, now, failures,
                   detachedTimers>>
    /\ UNCHANGED <<searchVars, appVars, cacheVars>>

\* The foreign drag ends without a drop on a card of this container.
ForeignDragEnd ==
    /\ Ready
    /\ drag = "foreign"
    /\ drag' = "none"
    /\ log' = <<>>
    /\ lastOp' = Op("foreignDragEnd", 0, <<>>)
    /\ ops' = ops + 1
    /\ UNCHANGED <<kind, phase, itemsIsArray, items, container, storage,
                   draggedElement, now, failures, detachedTimers>>
    /\ UNCHANGED <<searchVars, appVars, cacheVars>>

----------------------------------------------------------------------------
(* Import and export *)

\* Entries of an imported file: JSON objects, or the JSON value null.  A
\* field that is missing (undefined) is written as the empty text: the code
\* only tests these fields for truthiness.
ImportEntry(name, url, icon) ==
    [isNull |-> FALSE, name |-> name, url |-> url, icon |-> icon]
NullEntry == [isNull |-> TRUE, name |-> <<>>, url |-> <<>>, icon |-> ""]

ImportEntries(k) ==
    { \* a new entry without icon; for engines its url has no {query}
      ImportEntry(<<"X">>, <<Scheme, "b.org", "/">>, ""),
      \* an entry without name
      ImportEntry(<<>>, <<Scheme, "a.com", "/">>, "rocket"),
      \* an entry with the url of the placeholder item
      ImportEntry(<<"Y">>, getPlaceholderItem(k).url, "rocket"),
      \* null
      NullEntry }

RECURSIVE SeqsUpTo(_, _)
SeqsUpTo(S, n) ==
    IF n = 0 THEN {<<>>}
    ELSE LET shorter == SeqsUpTo(S, n - 1)
         IN  shorter \cup {Append(q, e) : q \in shorter, e \in S}

RECURSIVE importLoopNoCheck(_, _, _, _)
importLoopNoCheck(its, itemsData, from, id) ==
    IF from > Len(itemsData)
    THEN its
    ELSE LET itemData == itemsData[from]
         IN  IF itemData.isNull
             THEN its
             ELSE IF \E i \in 1..Len(its) : its[i].url = itemData.url
             THEN importLoopNoCheck(its, itemsData, from + 1, id)
             ELSE importLoopNoCheck(
                      Append(its, Item(ToString(id), itemData.name, itemData.url,
                                       IF itemData.icon # "" THEN itemData.icon
                                       ELSE GlobeIcon)),
                      itemsData, from + 1, id + 1)

RECURSIVE importLoopReplace(_, _, _, _)
importLoopReplace(its, itemsData, from, id) ==
    IF from > Len(itemsData)
    THEN its
    ELSE LET itemData == itemsData[from]
             new == Item(ToString(id), itemData.name, itemData.url,
                         IF itemData.icon # "" THEN itemData.icon ELSE GlobeIcon)
         IN  IF itemData.isNull
             THEN its
             ELSE IF ~Truthy(itemData.name) \/ ~Truthy(itemData.url)
             THEN importLoopReplace(its, itemsData, from + 1, id)
             ELSE IF \E i \in 1..Len(its) : its[i].url = itemData.url
             THEN importLoopReplace(
                      [i \in 1..Len(its) |->
                          IF its[i].url = itemData.url THEN new ELSE its[i]],
                      itemsData, from + 1, id + 1)
             ELSE importLoopReplace(Append(its, new), itemsData, from + 1, id + 1)

RECURSIVE importLoopNoDefaultIcon(_, _, _, _)
importLoopNoDefaultIcon(its, itemsData, from, id) ==
    IF from > Len(itemsData)
    THEN its
    ELSE LET itemData == itemsData[from]
         IN  IF itemData.isNull
             THEN its
             ELSE IF ~Truthy(itemData.name) \/ ~Truthy(itemData.url)
             THEN importLoopNoDefaultIcon(its, itemsData, from + 1, id)
             ELSE IF \E i \in 1..Len(its) : its[i].url = itemData.url
             THEN importLoopNoDefaultIcon(its, itemsData, from + 1, id)
             ELSE importLoopNoDefaultIcon(
                      Append(its, Item(ToString(id), itemData.name, itemData.url,
                                       itemData.icon)),
                      itemsData, from + 1, id + 1)

\* The forEach loop of importFromJSON over itemsData[from..], with the
\* collection and the id counter reached so far.  Reading .name of null
\* throws a TypeError: the loop is abandoned with what was pushed so far.
RECURSIVE importLoop(_, _, _, _)
importLoop(its, itemsData, from, id) ==
    IF from > Len(itemsData)
    THEN its
    ELSE LET itemData == itemsData[from]
         IN  IF itemData.isNull
             THEN its
             ELSE IF ~Truthy(itemData.name) \/ ~Truthy(itemData.url)
             THEN importLoop(its, itemsData, from + 1, id)
             ELSE IF \E i \in 1..Len(its) : its[i].url = itemData.url
             THEN importLoop(its, itemsData, from + 1, id)
             ELSE importLoop(
                      Append(its, Item(ToString(id), itemData.name, itemData.url,
                                       IF itemData.icon # "" THEN itemData.icon
                                       ELSE GlobeIcon)),
                      itemsData, from + 1, id + 1)

\* The imported files: arrays of at most MaxImport entries.  Entries behind a
\* null are never read, so null is only taken as the last entry.
ImportFiles(k) ==
    { f \in SeqsUpTo(ImportEntries(k), MaxImport) :
        \A j \in 1..(Len(f) - 1) : ~f[j].isNull }

\* Whether the forEach callback throws on some entry of itemsData.
importThrows(itemsData) == \E j \in 1..Len(itemsData) : itemsData[j].isNull

\* Number of pending delete-revert timers of the mounted cards.
RECURSIVE PendingTimers(_)
PendingTimers(cont) ==
    IF cont = <<>> THEN 0
    ELSE (IF Head(cont).timer THEN 1 ELSE 0) + PendingTimers(Tail(cont))

\* The change handler of the import file input, for a file whose JSON is an
\* array: CardManager.importFromJSON(itemsData), and the catch of the handler
\* when it throws.  lastOp.card is the count returned (0 when it threw).
importFromJSON(itemsData) ==
    /\ Idle
    /\ \E t \in Readings, ok \in WriteOutcomes :
         LET imported == importLoop(items, itemsData, 1, t)
             importedCount == Len(imported) - Len(items)
             threw == importThrows(itemsData)
             saves == importedCount > 0 /\ ~threw
         IN  /\ Len(imported) <= MaxItems
             /\ saves \/ ok
             /\ now' = t
             /\ items' = imported
             /\ SavedIf(saves, imported, ok,
                        IF threw
                        THEN <<Effect("throw TypeError", <<>>)>>
                             \o Alerts(<<"console.error: Error importing sites",
                                         "alert: Failed to import sites.">>)
                        ELSE IF saves
                        THEN saveItemsLog(imported, ok)
                        ELSE Alerts(<<"alert: No valid sites found in the file.">>))
             /\ container' = IF saves THEN renderItems(kind, imported) ELSE container
             /\ detachedTimers' = IF saves
                                  THEN detachedTimers + PendingTimers(container)
                                  ELSE detachedTimers
             /\ lastOp' = Op("importFromJSON", IF threw THEN 0 ELSE importedCount,
                             itemsData)
    /\ ops' = ops + 1
    /\ UNCHANGED <<kind, phase, itemsIsArray, draggedElement, drag>>
    /\ UNCHANGED <<searchVars, appVars, cacheVars>>

\* The same handler for a file that is not JSON, or whose JSON is not an
\* array: importFromJSON is not called.
ImportNotArray(isJSON) ==
    /\ Idle
    /\ log' = IF isJSON
              THEN Alerts(<<"alert: Invalid JSON format. Expected an array of sites.">>)
              ELSE Alerts(<<"console.error: Error importing sites",
                            "alert: Failed to import sites.">>)
    /\ lastOp' = Op("importNotArray", 0, <<>>)
    /\ ops' = ops + 1
    /\ UNCHANGED <<kind, phase, itemsIsArray, items, container, storage,
                   draggedElement, drag, now, failures, detachedTimers>>
    /\ UNCHANGED <<searchVars, appVars, cacheVars>>

exportToJSONWithIds(its) ==
    [i \in 1..Len(its) |->
        [isNull |-> FALSE, id |-> its[i].id, name |-> its[i].name,
         url |-> its[i].url, icon |-> its[i].icon]]

\* CardManager.exportToJSON: the items without their ids.
exportToJSON(its) ==
    [i \in 1..Len(its) |-> ImportEntry(its[i].name, its[i].url, its[i].icon)]

exportSitesNotifying(its) ==
    [count |-> Len(its),
     log |-> <<Effect("download", exportToJSON(its)), Effect("itemsUpdated", its)>>]

\* SiteManager.exportSites: the count it returns and its effects.  An empty
\* collection returns 0 before anything is built; otherwise the mapped
\* entries are serialised and downloaded through a temporary link.
exportSites(its) ==
    IF Len(its) = 0
    THEN [count |-> 0, log |-> <<>>]
    ELSE [count |-> Len(its), log |-> <<Effect("download", exportToJSON(its))>>]

\* The export handler: nothing of the manager changes; it reports the count.
Export ==
    /\ Idle
    /\ LET r == exportSites(items)
       IN  /\ log' = r.log \o
                     <<Effect(IF r.count > 0
                              THEN "console.info: Successfully exported"
                              ELSE "console.info: No sites to export.", <<>>)>>
           /\ lastOp' = Op("exportToJSON", r.count, <<>>)
    /\ ops' = ops + 1
    /\ UNCHANGED <<kind, phase, itemsIsArray, items, container, storage,
                   draggedElement, drag, now, failures, detachedTimers>>
    /\ UNCHANGED <<searchVars, appVars, cacheVars>>

Next ==
    \/ init
    \/ addNewItem
    \/ \E k \in 1..MaxItems : EditBtnClick(k)
    \/ \E k \in 1..MaxItems, key \in Keys : KeyDown(k, key)
    \/ \E k \in 1..MaxItems, text \in NameInputs : Input(k, "name", text)
    \/ \E k \in 1..MaxItems, text \in UrlInputs(kind) : Input(k, "url", text)
    \/ \E k \in 1..MaxItems : DeleteBtnClick(k)
    \/ \E k \in 1..MaxItems : TimerFire(k)
    \/ DetachedTimerFire
    \/ \E k \in 1..MaxItems, newIcon \in IconInputs : IconClick(k, newIcon)
    \/ \E k \in 1..MaxItems : DragStart(k)
    \/ ForeignDragStart
    \/ \E k \in 1..MaxItems : DragEnter(k)
    \/ \E k \in 1..MaxItems, inside \in BOOLEAN : DragLeave(k, inside)
    \/ \E k \in 1..MaxItems : Drop(k)
    \/ DragEnd
    \/ ForeignDragEnd
    \/ \E itemsData \in ImportFiles(kind) : importFromJSON(itemsData)
    \/ \E isJSON \in BOOLEAN : ImportNotArray(isJSON)
    \/ Export

Spec == Init /\ [][Next]_vars

\* The event loop runs every timer callback that is due: a pending
\* delete-revert timer of a mounted card fires unless it is cleared first.
TimerFairness == \A k \in 1..MaxItems : WF_vars(TimerFire(k))

LiveSpec == Spec /\ TimerFairness

----------------------------------------------------------------------------
(* Search: SearchManager over the site collection *)

\* Bound on the handlers of the search input that run.
MaxSearchOps == 4

\* What the user may have typed into the search input.
SearchInputs == { <<>>, <<Space>>, <<"a">>, <<Space, "a">>, <<"q">> }

\* Whether the lower-cased chunk c includes the lower-case piece p, for the
\* chunks item names and urls are made of.
LowerIncludes(c, p) ==
    \/ p = "a" /\ c \in {"A", "a.com", "example.org", "example.com", "/search?q="}
    \/ p = "q" /\ c \in {QueryToken, "/search?q=", "/?q=", "/x?q="}

\* SearchManager.filterSites, for a trimmed query of one piece.
filterSites(its, query) ==
    SelectSeq(its, LAMBDA site :
        \/ \E i \in 1..Len(site.name) : LowerIncludes(site.name[i], query[1])
        \/ \E i \in 1..Len(site.url) : LowerIncludes(site.url[i], query[1]))

\* SearchManager.renderResults: one entry per result, then the web-search
\* entry; the first entry is highlighted.
renderResults(query, res) ==
    [i \in 1..(Len(res) + 1) |->
        [name |-> IF i <= Len(res) THEN res[i].name
                  ELSE <<"Search Google for">> \o query,
         highlighted |-> i = 1]]

\* SearchManager.handleSearch: the result list and whether it is hidden.
handleSearch(its, shown, query) ==
    LET q == Trim(query)
    IN  IF ~Truthy(q)
        THEN [results |-> shown, hidden |-> TRUE]
        ELSE [results |-> renderResults(q, filterSites(its, q)), hidden |-> FALSE]

clearTimeoutNothing(timers, id) == timers

\* clearTimeout(id): the timer with that id, if pending, is cancelled.
clearTimeout(timers, id) == timers \ {id}

\* The search manager runs over a site manager that init() has set up.
SearchInit ==
    /\ kind = "site"
    /\ storage \in StoredValues("site")
    /\ loadItems("site", storage).isArray
    /\ phase = "ready"
    /\ itemsIsArray = TRUE
    /\ items = loadItems("site", storage).items
    /\ container = renderItems("site", items)
    /\ draggedElement = 0
    /\ drag = "none"
    /\ now = MaxStored + 1
    /\ lastOp = Op("init", 0, <<>>)
    /\ log = Alerts(loadItems("site", storage).errors)
    /\ failures = 0
    /\ detachedTimers = 0
    /\ ops = 0
    /\ SearchConstructed
    /\ NanoConstructed
    /\ NoCacheRequest

SearchReady == phase = "ready" /\ ops < MaxSearchOps

\* The input listener: the user changes the text of the search input.
SearchInput(text) ==
    /\ SearchReady
    /\ text # inputValue
    /\ inputValue' = text
    /\ debounceTimer' = debounceTimer + 1
    /\ searchTimers' = clearTimeout(searchTimers, debounceTimer) \cup {debounceTimer'}
    /\ log' = <<>>
    /\ lastOp' = Op("searchInput", 0, text)
    /\ ops' = ops + 1
    /\ UNCHANGED <<appVars, cacheVars>>
    /\ UNCHANGED <<kind, phase, itemsIsArray, items, container, storage,
                   draggedElement, drag, now, failures, detachedTimers,
                   results, resultsHidden>>

\* The callback of the pending timer id runs, 150 ms after it was set:
\* handleSearch(e.target.value), the value being read now.
DebounceFire(id) ==
    /\ phase = "ready"
    /\ id \in searchTimers
    /\ searchTimers' = searchTimers \ {id}
    /\ LET r == handleSearch(items, results, inputValue)
       IN  /\ results' = r.results
           /\ resultsHidden' = r.hidden
    /\ log' = <<Effect("handleSearch", inputValue)>>
    /\ lastOp' = Op("debounce", id, inputValue)
    /\ UNCHANGED <<appVars, cacheVars>>
    /\ UNCHANGED <<kind, phase, itemsIsArray, items, container, storage,
                   draggedElement, drag, now, failures, detachedTimers, ops,
                   inputValue, debounceTimer>>

\* keydown Escape in the search input: blur when the input is blank,
\* otherwise clear(), which empties the input without an input event.
SearchEscape ==
    /\ SearchReady
    /\ IF Trim(inputValue) = <<>>
       THEN UNCHANGED <<inputValue, resultsHidden>>
       ELSE inputValue' = <<>> /\ resultsHidden' = TRUE
    /\ log' = <<>>
    /\ lastOp' = Op("searchKeydown", 0, <<"Escape">>)
    /\ ops' = ops + 1
    /\ UNCHANGED <<appVars, cacheVars>>
    /\ UNCHANGED <<kind, phase, itemsIsArray, items, container, storage,
                   draggedElement, drag, now, failures, detachedTimers,
                   debounceTimer, searchTimers, results>>

\* The highlightedIndex getter: the position of the first entry that carries
\* the class highlighted, 0 (JavaScript: -1) when there is none.
highlightedIndex(res) ==
    IF \E i \in 1..Len(res) : res[i].highlighted
    THEN CHOOSE i \in 1..Len(res) :
             res[i].highlighted /\ \A j \in 1..(i - 1) : ~res[j].highlighted
    ELSE 0

setHighlightedIndexAddOnly(res, value) ==
    [i \in 1..Len(res) |-> [res[i] EXCEPT !.highlighted = @ \/ i = value]]

\* The highlightedIndex setter: the class is removed from the entry the
\* getter gives and added to the entry at the new position, each only when
\* there is such an entry.
setHighlightedIndex(res, value) ==
    LET cur == highlightedIndex(res)
        removed == [i \in 1..Len(res) |->
                       [res[i] EXCEPT !.highlighted = @ /\ i # cur]]
    IN  [i \in 1..Len(res) |->
            [removed[i] EXCEPT !.highlighted = @ \/ i = value]]

\* JavaScript's remainder: the sign of the dividend.
JSRemainder(a, n) == IF a >= 0 THEN a % n ELSE 0 - ((0 - a) % n)

\* The position that highlightNext (step = 1) and highlightPrevious
\* (step = -1) hand to the setter, from 0-based arithmetic on the getter.
highlightStep(res, step) ==
    LET itemCount == Len(res)
        index == highlightedIndex(res) - 1
    IN  IF itemCount = 0
        THEN 0
        ELSE JSRemainder(index + step + (IF step < 0 THEN itemCount ELSE 0),
                         itemCount) + 1

NavKeys == {"ArrowDown", "ArrowUp", "Home", "End"}

\* keydown of a navigation key in the search input.
SearchNavKey(key) ==
    /\ SearchReady
    /\ key \in NavKeys
    /\ results' =
          IF key = "ArrowDown"
          THEN IF resultsHidden THEN results
               ELSE setHighlightedIndex(results, highlightStep(results, 1))
          ELSE IF key = "ArrowUp"
          THEN IF resultsHidden THEN results
               ELSE setHighlightedIndex(results, highlightStep(results, -1))
          ELSE IF key = "Home"
          THEN setHighlightedIndex(results, 1)
          ELSE setHighlightedIndex(results, Len(results))
    /\ log' = <<>>
    /\ lastOp' = Op("searchKeydown", highlightedIndex(results), <<key>>)
    /\ ops' = ops + 1
    /\ UNCHANGED <<appVars, cacheVars>>
    /\ UNCHANGED <<kind, phase, itemsIsArray, items, container, storage,
                   draggedElement, drag, now, failures, detachedTimers,
                   inputValue, debounceTimer, searchTimers, resultsHidden>>

\* keydown Enter in the search input: a click is dispatched at the
\* highlighted entry, whose click listener calls clear().
SearchEnter ==
    /\ SearchReady
    /\ IF highlightedIndex(results) # 0
       THEN inputValue' = <<>> /\ resultsHidden' = TRUE
       ELSE UNCHANGED <<inputValue, resultsHidden>>
    /\ log' = <<>>
    /\ lastOp' = Op("searchKeydown", highlightedIndex(results), <<"Enter">>)
    /\ ops' = ops + 1
    /\ UNCHANGED <<appVars, cacheVars>>
    /\ UNCHANGED <<kind, phase, itemsIsArray, items, container, storage,
                   draggedElement, drag, now, failures, detachedTimers,
                   debounceTimer, searchTimers, results>>

\* A click outside the input and the result list: hideResults().
SearchClickOutside ==
    /\ SearchReady
    /\ resultsHidden' = TRUE
    /\ log' = <<>>
    /\ lastOp' = Op("searchClickOutside", 0, <<>>)
    /\ ops' = ops + 1
    /\ UNCHANGED <<appVars, cacheVars>>
    /\ UNCHANGED <<kind, phase, itemsIsArray, items, container, storage,
                   draggedElement, drag, now, failures, detachedTimers,
                   inputValue, debounceTimer, searchTimers, results>>

SearchNext ==
    \/ \E key \in NavKeys : SearchNavKey(key)
    \/ SearchEnter
    \/ SearchClickOutside
    \/ \E text \in SearchInputs : SearchInput(text)
    \/ \E id \in 1..MaxSearchOps : DebounceFire(id)
    \/ SearchEscape

SearchSpec == SearchInit /\ [][SearchNext]_vars

\* The event loop runs the callback of every pending timer once it is due.
SearchFairness == \A id \in 1..MaxSearchOps : WF_vars(DebounceFire(id))

SearchLiveSpec == SearchSpec /\ SearchFairness

----------------------------------------------------------------------------
(* NanoStart: the inline-editing page class of app.js *)

\* The card manager, left as constructed: NanoStart does not use it.
ManagerConstructed ==
    /\ kind = "site"
    /\ phase = "constructed"
    /\ itemsIsArray = TRUE
    /\ items = <<>>
    /\ container = <<>>
    /\ storage = StoredAbsent
    /\ draggedElement = 0
    /\ drag = "none"
    /\ failures = 0
    /\ detachedTimers = 0
    /\ ops = 0

managerVars == <<kind, phase, itemsIsArray, items, container, storage,
                 draggedElement, drag, failures, detachedTimers, ops>>

\* Site lists an earlier session may have saved: distinct ids, in any order.
StoredSiteLists ==
    LET ids == {ToString(n) : n \in 1..MaxStoredSites}
    IN  UNION {{s \in [1..n -> ids] : \A i, j \in 1..n : s[i] = s[j] => i = j} :
                   n \in 0..MaxStoredSites}

\* NanoStart.loadSites: JSON.parse of the stored text, [] when there is none.
loadSites(value) == IF value.tag = "array" THEN value.items ELSE <<>>

\* NanoStart.saveSites: setItem in a try/catch that only logs.
saveSites(value, its, ok) == IF ok THEN Stringify(its) ELSE value

\* NanoStart.createSiteCard: data-id and data-index as given at creation.
createSiteCard(site, index) == [id |-> site, index |-> index]

\* NanoStart.renderSites: one card per site, data-index = its array index.
renderSites(its) == [i \in 1..Len(its) |-> createSiteCard(its[i], i - 1)]

\* Array.prototype.splice(start, 1) and splice(start, 0, e) for start >= 0:
\* start is clamped to the length.
spliceRemoved(its, start) ==
    IF start < Len(its) THEN its[start + 1] ELSE "undefined"
spliceOut(its, start) ==
    IF start < Len(its) THEN RemoveAt(its, start + 1) ELSE its
spliceIn(its, start, e) ==
    InsertAt(its, (IF start < Len(its) THEN start ELSE Len(its)) + 1, e)

\* handleDrop's reordering of this.sites, from the two data-index values.
reorderSites(its, draggedIndex, targetIndex) ==
    spliceIn(spliceOut(its, draggedIndex), targetIndex,
             spliceRemoved(its, draggedIndex))

\* dropOnCard.before(draggedCard): the card at d moves to just before the
\* card at t.
before(cs, d, t) == MoveBefore(cs, d, t)

\* Where the card that was at d is after before(cs, d, t).
positionAfterMove(d, t) == IF d < t THEN t - 1 ELSE t

\* document.querySelector(`[data-id="${id}"]`): the first such card, 0 = null.
siteCardById(cs, id) ==
    IF \E i \in 1..Len(cs) : cs[i].id = id
    THEN CHOOSE i \in 1..Len(cs) :
             cs[i].id = id /\ \A j \in 1..(i - 1) : cs[j].id # id
    ELSE 0

\* this.sites.findIndex(site => site.id === id), 0-based, -1 when none.
siteIndexById(its, id) ==
    IF \E i \in 1..Len(its) : its[i] = id
    THEN (CHOOSE i \in 1..Len(its) :
              its[i] = id /\ \A j \in 1..(i - 1) : its[j] # id) - 1
    ELSE 0 - 1

\* this.sites.splice(index, 1) of deleteSite: index -1 counts from the end.
spliceOutAt(its, index) ==
    IF index >= 0 THEN spliceOut(its, index)
    ELSE IF its = <<>> THEN its ELSE RemoveAt(its, Len(its))

\* deleteSite's closing loop: every remaining card gets its position as
\* data-index.
reindexCards(cs) == [i \in 1..Len(cs) |-> [cs[i] EXCEPT !.index = i - 1]]

NanoReadings == now..(MaxStoredSites + 1 + MaxTicks)

\* new NanoStart(container): constructor and init() over some stored value.
NanoInit ==
    /\ ManagerConstructed
    /\ SearchConstructed
    /\ NoCacheRequest
    /\ siteStore \in {StoredAbsent} \cup {Stringify(s) : s \in StoredSiteLists}
    /\ sites = loadSites(siteStore)
    /\ cards = renderSites(sites)
    /\ draggedCard = 0
    /\ now = MaxStoredSites + 1
    /\ lastOp = Op("init", 0, <<>>)
    /\ log = <<>>

\* NanoStart.addNewSite (click on #add-site-btn).
addNewSite ==
    /\ draggedCard = 0
    /\ Len(sites) < MaxSites
    /\ \E t \in NanoReadings, ok \in BOOLEAN :
         LET site == ToString(t)
         IN  /\ now' = t
             /\ sites' = Append(sites, site)
             /\ siteStore' = saveSites(siteStore, sites', ok)
             /\ cards' = Append(cards, createSiteCard(site, Len(sites') - 1))
    /\ lastOp' = Op("addNewSite", Len(cards) + 1, <<>>)
    /\ log' = <<>>
    /\ UNCHANGED <<draggedCard, managerVars, searchVars, cacheVars>>

\* Click on the delete button of the card at k: NanoStart.deleteSite(site.id)
\* with the id the card was created for.
deleteSite(k, confirmed) ==
    /\ draggedCard = 0
    /\ k \in 1..Len(cards)
    /\ LET id == cards[k].id
           card == siteCardById(cards, id)
           index == siteIndexById(sites, id)
       IN  IF confirmed
           THEN \E ok \in BOOLEAN :
                  /\ sites' = spliceOutAt(sites, index)
                  /\ siteStore' = saveSites(siteStore, sites', ok)
                  /\ cards' = reindexCards(IF card # 0 THEN RemoveAt(cards, card)
                                           ELSE cards)
           ELSE UNCHANGED <<sites, siteStore, cards>>
    /\ lastOp' = Op("deleteSite", k, <<>>)
    /\ log' = <<>>
    /\ UNCHANGED <<draggedCard, now, managerVars, searchVars, cacheVars>>

\* dragstart on the drag handle of the card at k: NanoStart.handleDragStart.
handleDragStart(k) ==
    /\ draggedCard = 0
    /\ k \in 1..Len(cards)
    /\ draggedCard' = k
    /\ lastOp' = Op("handleDragStart", k, <<>>)
    /\ log' = <<>>
    /\ UNCHANGED <<sites, cards, siteStore, now, managerVars, searchVars, cacheVars>>

\* drop on the card at k: NanoStart.handleDrop.  lastOp keeps the ids of the
\* dragged card and of the card dropped on.
handleDrop(k) ==
    /\ draggedCard # 0
    /\ k \in 1..Len(cards)
    /\ IF draggedCard # k
       THEN \E ok \in BOOLEAN :
              /\ sites' = reorderSites(sites, cards[draggedCard].index,
                                       cards[k].index)
              /\ siteStore' = saveSites(siteStore, sites', ok)
              /\ cards' = before(cards, draggedCard, k)
              /\ draggedCard' = positionAfterMove(draggedCard, k)
       ELSE UNCHANGED <<sites, siteStore, cards, draggedCard>>
    /\ lastOp' = Op("handleDrop", k, <<cards[draggedCard].id, cards[k].id>>)
    /\ log' = <<>>
    /\ UNCHANGED <<now, managerVars, searchVars, cacheVars>>

\* dragend on the drag handle: NanoStart.handleDragEnd.
handleDragEnd ==
    /\ draggedCard # 0
    /\ draggedCard' = 0
    /\ lastOp' = Op("handleDragEnd", draggedCard, <<>>)
    /\ log' = <<>>
    /\ UNCHANGED <<sites, cards, siteStore, now, managerVars, searchVars, cacheVars>>

NanoNext ==
    \/ addNewSite
    \/ \E k \in 1..MaxSites, confirmed \in BOOLEAN : deleteSite(k, confirmed)
    \/ \E k \in 1..MaxSites : handleDragStart(k)
    \/ \E k \in 1..MaxSites : handleDrop(k)
    \/ handleDragEnd

NanoSpec == NanoInit /\ [][NanoNext]_vars

----------------------------------------------------------------------------
(* Clearing the icon cache: the settings button and the service worker *)

\* event.data of the service worker's reply, and the object the timer
\* resolves with, which has no type.
Reply(success) == [type |-> "ICON_CACHE_CLEARED", success |-> success]
TimedOut == [type |-> "none", success |-> FALSE]
NoValue == [type |-> "none", success |-> TRUE]

\* A promise: pending until resolve is first called; settled counts the runs
\* of the code that awaits it.
NoPromise == [state |-> "none", value |-> NoValue, settled |-> 0]
NewPromise == [state |-> "pending", value |-> NoValue, settled |-> 0]

resolveAgain(p, value) ==
    [state |-> "fulfilled", value |-> value, settled |-> p.settled + 1]

\* resolve(value): fulfils a pending promise; a later call is ignored.
resolve(p, value) ==
    IF p.state = "pending"
    THEN [state |-> "fulfilled", value |-> value, settled |-> p.settled + 1]
    ELSE p

\* What the handler writes once the awaited response is there.
responseOutput(response) ==
    IF response.success
    THEN "console.info: Icon cache cleared successfully."
    ELSE "console.info: Cache cleared, but confirmation was not received."

\* One call of resolve for a request, followed by the code after the await
\* when the promise was fulfilled by it.
settle(request, value) ==
    LET p == resolve(request.promise, value)
    IN  [request EXCEPT
           !.promise = p,
           !.output = IF p.settled > request.promise.settled
                      THEN responseOutput(p.value) ELSE @]

\* The settings page, loaded with or without a controlling service worker.
CacheInit ==
    /\ ManagerConstructed
    /\ SearchConstructed
    /\ NanoConstructed
    /\ now = MaxStored + 1
    /\ lastOp = Op("init", 0, <<>>)
    /\ log = <<>>
    /\ controller \in BOOLEAN
    /\ requests = <<>>
    /\ listeners = {}
    /\ timeouts = {}
    /\ toWorker = 0
    /\ toClient = <<>>

\* Click on #clear-cache-btn.  Without a controller postMessage is called on
\* null: the TypeError is caught and alerted, and no promise is made.
ClearCacheClick(confirmed) ==
    /\ Len(requests) < MaxClicks
    /\ IF ~confirmed
       THEN UNCHANGED <<requests, listeners, timeouts, toWorker>>
       ELSE IF ~controller
       THEN /\ requests' = Append(requests,
                                  [posted |-> FALSE, promise |-> NoPromise,
                                   output |-> "alert: Failed to clear icon cache."])
            /\ UNCHANGED <<listeners, timeouts, toWorker>>
       ELSE /\ toWorker' = toWorker + 1
            /\ requests' = Append(requests,
                                  [posted |-> TRUE, promise |-> NewPromise,
                                   output |-> "none"])
            /\ listeners' = listeners \cup {Len(requests) + 1}
            /\ timeouts' = timeouts \cup {Len(requests) + 1}
    /\ lastOp' = Op("clearCacheClick", Len(requests'), <<confirmed>>)
    /\ UNCHANGED <<controller, toClient, now, log, managerVars, searchVars, appVars>>

\* The service worker's activate handler: clients.claim() makes it the
\* page's controller.
WorkerClaims ==
    /\ ~controller
    /\ controller' = TRUE
    /\ lastOp' = Op("activate", 0, <<>>)
    /\ UNCHANGED <<requests, listeners, timeouts, toWorker, toClient, now, log,
                   managerVars, searchVars, appVars>>

\* The service worker's message handler for CLEAR_ICON_CACHE:
\* caches.delete resolves (success) or rejects, and the reply is posted to
\* event.source.
WorkerHandles(success) ==
    /\ toWorker > 0
    /\ toWorker' = toWorker - 1
    /\ toClient' = Append(toClient, Reply(success))
    /\ lastOp' = Op("workerMessage", 0, <<success>>)
    /\ UNCHANGED <<controller, requests, listeners, timeouts, now, log,
                   managerVars, searchVars, appVars>>

\* A reply is delivered to navigator.serviceWorker: every handler still
\* registered sees type ICON_CACHE_CLEARED, removes itself and resolves.
ReplyArrives ==
    /\ toClient # <<>>
    /\ toClient' = Tail(toClient)
    /\ requests' = [r \in 1..Len(requests) |->
                      IF r \in listeners
                      THEN settle(requests[r], Head(toClient))
                      ELSE requests[r]]
    /\ listeners' = {}
    /\ lastOp' = Op("message", Cardinality(listeners), <<>>)
    /\ UNCHANGED <<controller, timeouts, toWorker, now, log,
                   managerVars, searchVars, appVars>>

\* The 5-second timer of request r: removes the handler and resolves with
\* { success: false }.  The reply handler never clears this timer.
TimeoutFires(r) ==
    /\ r \in timeouts
    /\ timeouts' = timeouts \ {r}
    /\ listeners' = listeners \ {r}
    /\ requests' = [requests EXCEPT ![r] = settle(@, TimedOut)]
    /\ lastOp' = Op("timeout", r, <<>>)
    /\ UNCHANGED <<controller, toWorker, toClient, now, log,
                   managerVars, searchVars, appVars>>

CacheNext ==
    \/ \E confirmed \in BOOLEAN : ClearCacheClick(confirmed)
    \/ WorkerClaims
    \/ \E success \in BOOLEAN : WorkerHandles(success)
    \/ ReplyArrives
    \/ \E r \in 1..MaxClicks : TimeoutFires(r)

CacheSpec == CacheInit /\ [][CacheNext]_vars

\* The event loop runs every timer that is due; nothing obliges the service
\* worker to answer.
CacheFairness == \A r \in 1..MaxClicks : WF_vars(TimeoutFires(r))

CacheLiveSpec == CacheSpec /\ CacheFairness

----------------------------------------------------------------------------
(* Properties *)

Ids(s) == [i \in 1..Len(s) |-> s[i].id]

UniqueIds(its) ==
    \A i, j \in 1..Len(its) : i # j => its[i].id # its[j].id

\* A step that runs one user-triggered handler named op.
Handler(op) == ops' = ops + 1 /\ lastOp'.op = op

\* t is s without its leading and trailing whitespace.
IsTrimOf(t, s) ==
    /\ t = <<>> \/ (t[1] # Space /\ t[Len(t)] # Space)
    /\ \E a \in 0..Len(s) :
         /\ a + Len(t) <= Len(s)
         /\ SubSeq(s, a + 1, a + Len(t)) = t
         /\ \A i \in (1..a) \cup ((a + Len(t) + 1)..Len(s)) : s[i] = Space

\* The contiguous pieces of s.
Pieces(s) == {SubSeq(s, a, b) : a \in 1..(Len(s) + 1), b \in 0..Len(s)}

AlertTypes ==
    { "alert: Name and URL are required.",
      "alert: Please enter a valid URL",
      "alert: Search URL must contain {query} placeholder." }

Alerted(effects) == \E i \in 1..Len(effects) : effects[i].type \in AlertTypes

\* The handler raised an exception.
Threw(effects) ==
    \E i \in 1..Len(effects) :
        effects[i].type \in {"throw TypeError", "throw QuotaExceededError"}

\* The step invokes saveEdit from the card at position k (edit button in
\* editing mode, or Enter without Shift in editing mode).
SaveEditFrom(k) ==
    /\ ops' = ops + 1
    /\ lastOp'.card = k
    /\ k \in 1..Len(container)
    /\ container[k].editing
    /\ \/ lastOp'.op = "saveEdit"
       \/ lastOp'.op = "keydown" /\ lastOp'.arg[1] = "Enter" /\ lastOp'.arg[2] = ""

\* The fields of card c do not pass saveEdit's validation: empty trimmed name,
\* empty trimmed url, or url refused by the collection's validator.
FieldsRejected(c) ==
    \E n \in Pieces(c.name), u \in Pieces(c.url) :
        /\ IsTrimOf(n, c.name)
        /\ IsTrimOf(u, c.url)
        /\ \/ n = <<>>
           \/ u = <<>>
           \/ IF kind = "site"
              THEN ~CanParse(u)
              ELSE ~Includes(u, QueryToken) \/ ~CanParse(Replace(u, QueryToken, "test"))

\* C1: addNewItem, startEditing, saveEdit, cancelEdit, a confirmed deleteItem
\* and handleDrop each leave the data-id sequence of the cards in the container
\* equal to the id sequence of the items list, as init() made it.
C1_RenderedOrderEqualsCollection ==
    [][ ( /\ Ids(container) = Ids(items)
          /\ ops' = ops + 1
          /\ lastOp'.op \in {"addNewItem", "startEditing", "saveEdit", "keydown",
                              "deleteItem", "drop"} )
        => Ids(container') = Ids(items') ]_vars

\* C2: no two items of the collection share an id, whatever the clock
\* readings at which addNewItem and importFromJSON ran.
C2_IdsUnique ==
    phase = "ready" => UniqueIds(items)

\* C3: after handleDrop with dragged id D and target id T (distinct, both in
\* the collection) item D stands immediately before T, and the other items
\* are the same, in the same relative order.
C3_DropPlacesDraggedBeforeTarget ==
    [][ \A k \in 1..Len(container) :
          ( /\ Handler("drop")
            /\ lastOp'.card = k
            /\ draggedElement # 0
            /\ container[draggedElement].id # container[k].id
            /\ findIndex(items, container[draggedElement].id) # 0
            /\ findIndex(items, container[k].id) # 0 )
          => LET D == container[draggedElement].id
                 T == container[k].id
             IN  \E p \in 1..(Len(items') - 1) :
                     /\ items'[p].id = D
                     /\ items'[p + 1].id = T
                     /\ \E i \in 1..Len(items) :
                            /\ items[i] = items'[p]
                            /\ RemoveAt(items', p) = RemoveAt(items, i) ]_vars

\* C3 witness: the three default engines [google, bing, duckduckgo] after
\* duckduckgo was dropped on google.
C3_Witness ==
    /\ lastOp.op = "drop"
    /\ log # <<>>
    /\ Ids(items) = <<"duckduckgo", "google", "bing">>

\* C4: the first click on an idle delete control arms it and changes neither
\* the collection, the cards in the container nor storage; the second click
\* while armed removes exactly the clicked card and its item.
C4_DeleteIsTwoStep ==
    [][ \A k \in 1..Len(container) :
          /\ (Handler("armDelete") /\ lastOp'.card = k)
             => /\ items' = items
                /\ storage' = storage
                /\ container' = [container EXCEPT ![k].armed = TRUE, ![k].timer = TRUE]
          /\ (Handler("deleteItem") /\ lastOp'.card = k)
             => /\ container[k].armed
                /\ container' = RemoveAt(container, k)
                /\ \E i \in 1..Len(items) :
                       /\ items[i].id = container[k].id
                       /\ items' = RemoveAt(items, i) ]_vars

\* C5: when saveEdit runs on an editing card whose trimmed name or trimmed url
\* is empty or whose url the validator refuses, the collection and storage are
\* unchanged, the card stays in editing mode and its fields keep their text.
C5_RejectedSaveChangesNothing ==
    [][ \A k \in 1..Len(container) :
          LET q == querySelector(container, container[k].id)
          IN  (SaveEditFrom(k) /\ container[q].editing /\ FieldsRejected(container[q]))
              => /\ items' = items
                 /\ storage' = storage
                 /\ Len(container') = Len(container)
                 /\ container'[q].editing
                 /\ container'[q].name = container[q].name
                 /\ container'[q].url = container[q].url ]_vars

\* C5 witness: a saveEdit was refused on a card whose name field holds only
\* whitespace, and the card is still in editing mode with that text.
C5_Witness ==
    /\ lastOp.op = "saveEdit"
    /\ Alerted(log)
    /\ lastOp.card \in 1..Len(container)
    /\ container[lastOp.card].editing
    /\ container[lastOp.card].name = <<Space>>
    /\ UniqueIds(items)

\* C6: every saveEdit that validation refuses surfaces an error (an alert) to
\* the user, in the site collection and in the search-engine collection.
C6_RejectedSaveAlerts ==
    [][ \A k \in 1..Len(container) :
          LET q == querySelector(container, container[k].id)
          IN  (SaveEditFrom(k) /\ container[q].editing /\ FieldsRejected(container[q]))
              => Alerted(log') ]_vars

\* C7: a saveEdit that passes validation gives the item with that id exactly
\* the trimmed name and trimmed url of the fields, leaves its id, icon and
\* position and every other item unchanged, and puts the card in view mode
\* showing the name and the formatted url.
C7_SuccessfulSaveCommitsTrimmedFields ==
    [][ \A k \in 1..Len(container) :
          LET q == querySelector(container, container[k].id)
              i == findIndex(items, container[k].id)
          IN  (SaveEditFrom(k) /\ ~FieldsRejected(container[q]) /\ i # 0)
              => /\ Len(items') = Len(items)
                 /\ \A j \in 1..Len(items) : j # i => items'[j] = items[j]
                 /\ items'[i].id = items[i].id
                 /\ items'[i].icon = items[i].icon
                 /\ IsTrimOf(items'[i].name, container[q].name)
                 /\ IsTrimOf(items'[i].url, container[q].url)
                 /\ ~container'[q].editing
                 /\ container'[q].name = items'[i].name
                 /\ container'[q].url =
                        IF kind = "site"
                        THEN <<items'[i].url[2]>>
                        ELSE Replace(items'[i].url, QueryToken, "...") ]_vars

\* C7 witness: a saveEdit committed a name typed with surrounding whitespace.
C7_Witness ==
    /\ lastOp.op = "saveEdit"
    /\ ~Alerted(log)
    /\ log # <<>>
    /\ lastOp.card \in 1..Len(container)
    /\ ~container[lastOp.card].editing
    /\ container[lastOp.card].name = <<"C">>
    /\ \E i \in 1..Len(items) : items[i].name = <<"C">>

\* C8: every item of the collection has a non-empty name and a non-empty url.
C8_NameAndUrlNeverEmpty ==
    phase = "ready" =>
        \A i \in 1..Len(items) : items[i].name # <<>> /\ items[i].url # <<>>

\* C8 witness: an import that met an entry without name has just added an item.
C8_Witness ==
    /\ lastOp.op = "importFromJSON"
    /\ lastOp.card = 1
    /\ Len(items) >= 2
    /\ \E i \in 1..Len(items) : items[i].name = <<"X">>

\* C9: a handler that completes and changes the collection calls setItem
\* exactly once with the whole new collection and then dispatches itemsUpdated
\* exactly once, when this.items already is the new collection.
C9_MutationWritesOnceThenNotifiesOnce ==
    [][ (phase = "ready" /\ ops' = ops + 1 /\ items' # items /\ ~Threw(log'))
        => LET writes == {i \in 1..Len(log') : log'[i].type = "setItem"}
               events == {i \in 1..Len(log') : log'[i].type = "itemsUpdated"}
           IN  /\ Cardinality(writes) = 1
               /\ Cardinality(events) = 1
               /\ \A w \in writes, e \in events :
                    /\ w < e
                    /\ log'[w].items = items'
                    /\ log'[e].items = items' ]_vars

\* C9 witness: an import of two entries has written and notified.
C9_Witness ==
    /\ lastOp.op = "importFromJSON"
    /\ lastOp.card = 2
    /\ Len(log) = 2

\* C10: whatever is stored under the key at startup, init() completes without
\* raising and leaves the stored array, or else the default set, as the
\* collection.
C10_InitFailsSoft ==
    lastOp.op = "init" =>
        /\ phase = "ready"
        /\ itemsIsArray
        /\ items = IF storage.tag = "array" THEN storage.items
                   ELSE getDefaultItems(kind)

\* The handler of the step reached saveItems and its setItem call threw.
WriteFailed == phase = "ready" /\ ops' = ops + 1 /\ failures' = failures + 1

\* C11: when setItem throws inside saveItems, the stored value stays as it
\* was, no exception leaves the handler, the event is still dispatched with
\* the mutated collection, and the mutation stays in this.items and on the
\* cards: the added card, the removed card, the committed fields, the new
\* icon, the moved item, the imported entries.
C11_WriteFailureKeepsMutation ==
    [][ WriteFailed =>
          LET k == lastOp'.card
              op == lastOp'.op
          IN  /\ storage' = storage
              /\ phase' = "ready"
              /\ ~Threw(log')
              /\ log'[Len(log')] = Effect("itemsUpdated", items')
              /\ op = "addNewItem" =>
                    /\ Len(items') = Len(items) + 1
                    /\ SubSeq(items', 1, Len(items)) = items
                    /\ Len(container') = Len(container) + 1
                    /\ container'[Len(container')].id = items'[Len(items')].id
              /\ op = "deleteItem" =>
                    /\ Len(items') = Len(items) - 1
                    /\ Len(container') = Len(container) - 1
              /\ op \in {"saveEdit", "keydown"} =>
                    LET q == querySelector(container, container[k].id)
                        i == findIndex(items, container[k].id)
                    IN  /\ IsTrimOf(items'[i].name, container[q].name)
                        /\ IsTrimOf(items'[i].url, container[q].url)
                        /\ ~container'[q].editing
              /\ op = "iconClick" =>
                    LET i == findIndex(items, container[k].id)
                    IN  /\ items'[i].icon \in {ic[1] : ic \in IconInputs \ {<<>>}}
                        /\ container'[k].icon = items'[i].icon
              /\ (op = "drop" /\ container[draggedElement].id # container[k].id) =>
                    /\ Len(items') = Len(items)
                    /\ \E p \in 1..(Len(items') - 1) :
                           /\ items'[p].id = container[draggedElement].id
                           /\ items'[p + 1].id = container[k].id
                    /\ \E p \in 1..(Len(container') - 1) :
                           /\ container'[p].id = container[draggedElement].id
                           /\ container'[p + 1].id = container[k].id
              /\ op = "importFromJSON" =>
                    /\ Len(items') = Len(items) + lastOp'.card
                    /\ lastOp'.card > 0
                    /\ Ids(container') = Ids(items') ]_vars

\* C11 witness: the first handler's setItem threw, and the second handler, an
\* addNewItem, worked on the collection holding the unsaved change and stored
\* the whole of it.
C11_Witness ==
    /\ failures = 1
    /\ ops = 2
    /\ lastOp.op = "addNewItem"
    /\ log = <<Effect("setItem", items), Effect("itemsUpdated", items)>>
    /\ storage = Stringify(items)
    /\ Len(items) = 2

\* The entries of data that an import into its appends: those with a name and
\* a url whose url is neither in its nor in an earlier entry that has both.
Accepted(its, data) ==
    { j \in 1..Len(data) :
        /\ data[j].name # <<>>
        /\ data[j].url # <<>>
        /\ \A i \in 1..Len(its) : its[i].url # data[j].url
        /\ \A h \in 1..(j - 1) :
             (data[h].name # <<>> /\ data[h].url # <<>>) => data[h].url # data[j].url }

\* C12: an importFromJSON call that returns has appended, in input order,
\* exactly the entries with a non-empty name and url whose url was neither in
\* the collection nor in an entry appended earlier in the call; it returns
\* their number, and an entry without icon gets the globe glyph.
C12_ImportAppendsValidNewEntries ==
    [][ (Handler("importFromJSON") /\ ~Threw(log'))
        => LET data == lastOp'.arg
               acc == Accepted(items, data)
           IN  /\ lastOp'.card = Cardinality(acc)
               /\ Len(items') = Len(items) + Cardinality(acc)
               /\ \A j \in acc :
                    LET new == items'[Len(items) + Cardinality({h \in acc : h <= j})]
                    IN  /\ new.name = data[j].name
                        /\ new.url = data[j].url
                        /\ new.icon = IF data[j].icon = "" THEN "globe"
                                      ELSE data[j].icon ]_vars

\* C12 witness: one valid entry without icon and one entry without name,
\* imported into an empty collection: 1 is returned and one item is left.
C12_Witness ==
    /\ lastOp.op = "importFromJSON"
    /\ lastOp.arg = << ImportEntry(<<"X">>, <<Scheme, "b.org", "/">>, ""),
                       ImportEntry(<<>>, <<Scheme, "a.com", "/">>, "rocket") >>
    /\ lastOp.card = 1
    /\ Len(items) = 1
    /\ items[1].name = <<"X">>
    /\ items[1].icon = "globe"

\* C13: after importFromJSON, whatever its input and whether or not it
\* returned, the previous collection is an unchanged prefix of the new one.
C13_ImportKeepsExistingItems ==
    [][ Handler("importFromJSON")
        => /\ Len(items') >= Len(items)
           /\ SubSeq(items', 1, Len(items)) = items ]_vars

\* C13 witness: an import whose first entry has the url of an existing item
\* (the placeholder) and whose second entry is new: the existing item is
\* still first, the new one follows.
C13_Witness ==
    /\ lastOp.op = "importFromJSON"
    /\ lastOp.card = 1
    /\ Len(lastOp.arg) = 2
    /\ lastOp.arg[1].url = getPlaceholderItem(kind).url
    /\ Len(items) = 2
    /\ items[1].name = getPlaceholderItem(kind).name
    /\ items[2].name = <<"X">>

\* C14: importing the file that exportToJSON just produced into an empty
\* collection gives items with the same (name, url, icon), in the same order.
C14_ExportImportRoundTrip ==
    lastOp.op = "exportToJSON" =>
        LET file == exportToJSON(items)
            fresh == importLoop(<<>>, file, 1, now)
        IN  /\ Len(fresh) = Len(items)
            /\ \A i \in 1..Len(fresh) :
                 /\ fresh[i].name = items[i].name
                 /\ fresh[i].url = items[i].url
                 /\ fresh[i].icon = items[i].icon

\* C15: an import leaves this.items, the cards and the stored value in
\* agreement when they were in agreement before it, also when it stops on an
\* entry part-way; and a payload that is not an array changes nothing.
C15_ImportLeavesNoPartialChange ==
    [][ /\ ( /\ Handler("importFromJSON")
             /\ failures' = failures
             /\ Ids(container) = Ids(items)
             /\ storage = Stringify(items) )
           => /\ Ids(container') = Ids(items')
              /\ storage' = Stringify(items')
        /\ Handler("importNotArray")
           => /\ items' = items
              /\ container' = container
              /\ storage' = storage ]_vars

\* C16: an armed delete control of a mounted card always has its revert timer
\* pending; when the timer fires the control is idle again and no item or
\* card is removed; a click on an idle delete control arms it without
\* removing anything; and, timers being run by the event loop, a control
\* that is armed is eventually idle again or gone.
C16_ArmedDeleteReverts ==
    /\ [][ /\ \A k \in 1..Len(container') :
                container'[k].armed => container'[k].timer
           /\ \A k \in 1..Len(container) :
                /\ (lastOp'.op = "deleteTimeout" /\ lastOp'.card = k /\ ops' = ops)
                   => /\ ~container'[k].armed
                      /\ ~container'[k].timer
                      /\ items' = items
                      /\ Ids(container') = Ids(container)
                /\ (Handler("armDelete") /\ lastOp'.card = k)
                   => /\ ~container[k].armed
                      /\ container'[k].armed
                      /\ items' = items
                      /\ Ids(container') = Ids(container)
                /\ (ops' = ops + 1 /\ lastOp'.op \in {"armDelete", "deleteItem"}
                       /\ lastOp'.card = k /\ ~container[k].armed)
                   => lastOp'.op = "armDelete" ]_vars
    /\ \A k \in 1..MaxItems :
         (k <= Len(container) /\ container[k].armed)
            ~> (k > Len(container) \/ ~container[k].armed)

\* C16 witness: the timer of an armed card has fired; the card is still
\* mounted, its item is still in the collection and its control is idle.
C16_Witness ==
    /\ lastOp.op = "deleteTimeout"
    /\ lastOp.card \in 1..Len(container)
    /\ ~container[lastOp.card].armed
    /\ ~container[lastOp.card].timer
    /\ findIndex(items, container[lastOp.card].id) # 0

ClearedTimeout(effects) ==
    \E i \in 1..Len(effects) : effects[i].type = "clearTimeout"

\* C17: a key pressed on a card whose delete control is armed, whatever the
\* key and the mode of the card, makes the control idle and cancels its
\* timer, and removes no item and no card.
C17_KeyPressDisarms ==
    [][ \A k \in 1..Len(container) :
          (Handler("keydown") /\ lastOp'.card = k /\ container[k].armed)
          => /\ ~container'[k].armed
             /\ ~container'[k].timer
             /\ ClearedTimeout(log')
             /\ Ids(items') = Ids(items)
             /\ Ids(container') = Ids(container) ]_vars

\* C17 witness: Escape was pressed on an armed card in editing mode: the
\* timer was cleared, the control is idle and the item is still there.
C17_Witness ==
    /\ lastOp.op = "keydown"
    /\ lastOp.arg[1] = "Escape"
    /\ lastOp.arg[3] = "dirty"
    /\ ClearedTimeout(log)
    /\ lastOp.card \in 1..Len(container)
    /\ ~container[lastOp.card].armed
    /\ findIndex(items, container[lastOp.card].id) # 0

\* C18: a click on the edit/commit button or on the icon of a card whose
\* delete control is armed, a drag started from its handle or a drop on it
\* leaves the control idle.
C18_OtherInteractionDisarms ==
    [][ \A k \in 1..Len(container) :
          ( /\ ops' = ops + 1
            /\ lastOp'.op \in {"startEditing", "saveEdit", "iconClick", "dragstart", "drop"}
            /\ lastOp'.card = k
            /\ container[k].armed )
          => \A j \in 1..Len(container') :
               container'[j].id = container[k].id => ~container'[j].armed ]_vars

\* C19: a keypress on an armed card and the confirming second click both
\* cancel the card's pending revert timer: no timer is left pending on the
\* card after the keypress, nor for the card the confirming click removed.
C19_InteractionCancelsRevertTimer ==
    [][ \A k \in 1..Len(container) :
          /\ (Handler("keydown") /\ lastOp'.card = k)
             => ~container'[k].timer /\ detachedTimers' = detachedTimers
          /\ (Handler("deleteItem") /\ lastOp'.card = k)
             => detachedTimers' = detachedTimers ]_vars

\* C20: startEditing and typing into the fields leave the collection as it
\* is, and cancelEdit on an editing card leaves the collection and storage
\* as they are, puts the card in view mode and makes its fields show the
\* item's name and formatted url.
C20_CancelEditRevertsToCommitted ==
    [][ /\ (ops' = ops + 1 /\ lastOp'.op \in {"startEditing", "input"})
           => items' = items
        /\ \A k \in 1..Len(container) :
             LET q == querySelector(container, container[k].id)
                 i == findIndex(items, container[k].id)
             IN  ( /\ Handler("keydown")
                   /\ lastOp'.card = k
                   /\ lastOp'.arg[1] = "Escape"
                   /\ container[k].editing
                   /\ container[q].editing
                   /\ i # 0 )
                 => /\ items' = items
                    /\ storage' = storage
                    /\ ~container'[q].editing
                    /\ container'[q].name = items[i].name
                    /\ container'[q].url =
                           IF kind = "site"
                           THEN <<items[i].url[2]>>
                           ELSE Replace(items[i].url, QueryToken, "...") ]_vars

\* C20 witness: Escape was pressed on an editing card whose fields held
\* uncommitted text; the card is in view mode and shows the item's name.
C20_Witness ==
    /\ lastOp.op = "keydown"
    /\ lastOp.arg = <<"Escape", "", "dirty">>
    /\ lastOp.card \in 1..Len(container)
    /\ ~container[lastOp.card].editing
    /\ UniqueIds(items)
    /\ \E i \in 1..Len(items) :
         /\ items[i].id = container[lastOp.card].id
         /\ items[i].name = container[lastOp.card].name

\* C21: cancelEdit for a card that is not in editing mode changes nothing
\* (the cards, their mode, their displayed fields and their delete-armed
\* state stay as they are), and cancelEdit applied twice gives what it gives
\* applied once.
C21_CancelEditOnViewCardIsNoOp ==
    \A k \in 1..Len(container) :
        LET itemId == container[k].id
            q == querySelector(container, itemId)
            once == cancelEdit(container, items, itemId)
        IN  /\ ~container[q].editing => once = container
            /\ cancelEdit(once, items, itemId) = once

\* C22: addNewItem adds exactly one item, last in the collection, and one
\* card, last in the container; the item has the collection's placeholder
\* name, url and icon, none of them empty; the items and cards that were
\* there before keep their values and their order; the new card is in
\* editing mode and its fields hold the new item's name and raw url.
C22_AddAppendsPlaceholderInEditMode ==
    [][ Handler("addNewItem")
        => LET n == Len(items) + 1
               m == Len(container) + 1
           IN  /\ Len(items') = n
               /\ SubSeq(items', 1, n - 1) = items
               /\ Len(container') = m
               /\ SubSeq(container', 1, m - 1) = container
               /\ items'[n].name # <<>>
               /\ items'[n].url # <<>>
               /\ items'[n].icon # ""
               /\ items'[n].name =
                      <<IF kind = "site" THEN "New Site" ELSE "New Search Engine">>
               /\ items'[n].icon =
                      (IF kind = "site" THEN "globe" ELSE "magnifier-right")
               /\ Includes(items'[n].url, QueryToken) = (kind = "engine")
               /\ CanParse(Replace(items'[n].url, QueryToken, "test"))
               /\ container'[m].id = items'[n].id
               /\ container'[m].editing
               /\ container'[m].name = items'[n].name
               /\ container'[m].url = items'[n].url
               /\ container'[m].icon = items'[n].icon ]_vars

\* C22 witness: addNewItem ran on a collection that already held an item;
\* the new item is the last one and its card is being edited.
C22_Witness ==
    /\ lastOp.op = "addNewItem"
    /\ Len(items) >= 2
    /\ Len(container) = Len(items)
    /\ lastOp.card = Len(container)
    /\ container[Len(container)].editing
    /\ items[Len(items)].name = getPlaceholderItem(kind).name

\* The files an effect list downloads.
Downloads(effects) ==
    { i \in 1..Len(effects) : effects[i].type = "download" }

\* C23: an export leaves the collection, the cards and the stored value as
\* they are and reports the size of the collection; from a non-empty
\* collection it downloads one file with one entry per item, in collection
\* order, each an object with exactly name, url and icon (no id); from an
\* empty collection it reports zero and downloads nothing.
C23_ExportIsReadOnlyAndDropsIds ==
    [][ Handler("exportToJSON")
        => /\ items' = items
           /\ container' = container
           /\ storage' = storage
           /\ lastOp'.card = Len(items)
           /\ Len(items) = 0 => Downloads(log') = {}
           /\ Len(items) > 0 =>
                /\ Cardinality(Downloads(log')) = 1
                /\ \A d \in Downloads(log') :
                     LET file == log'[d].items
                     IN  /\ Len(file) = Len(items)
                         /\ \A i \in 1..Len(file) :
                              /\ ~file[i].isNull
                              /\ DOMAIN file[i] \ {"isNull"} = {"name", "url", "icon"}
                              /\ file[i].name = items[i].name
                              /\ file[i].url = items[i].url
                              /\ file[i].icon = items[i].icon ]_vars

\* C23 witness: two items were exported, the download holds two entries.
C23_Witness ==
    /\ lastOp.op = "exportToJSON"
    /\ lastOp.card = Len(items)
    /\ Len(items) >= 2
    /\ \E d \in Downloads(log) : Len(log[d].items) = Len(items)

\* C24: an item's icon changes only by an icon click on its own card while
\* that card is in editing mode (an icon click on a card in view mode changes
\* nothing); the accepted edit replaces the icon of that card's item and
\* nothing else of the collection, and calls setItem with the new collection
\* in the same handler.  Cards and items are matched by position while the
\* container shows the items in collection order.
C24_IconEditOnlyInEditingMode ==
    [][ /\ \A k \in 1..Len(container) :
             (Handler("iconClick") /\ lastOp'.card = k /\ ~container[k].editing)
             => /\ items' = items
                /\ container' = container
                /\ storage' = storage
        /\ \A i \in 1..Len(items) :
             ( /\ Ids(items') = Ids(items)
               /\ Ids(container) = Ids(items)
               /\ items'[i].icon # items[i].icon )
             => /\ Handler("iconClick")
                /\ lastOp'.card = i
                /\ container[i].editing
                /\ items' = [items EXCEPT ![i].icon = items'[i].icon]
                /\ container'[i].icon = items'[i].icon
                /\ \E e \in 1..Len(log') :
                     log'[e].type = "setItem" /\ log'[e].items = items'
                /\ failures' = failures => storage' = Stringify(items') ]_vars

\* C25: a drop on the dragged card itself, a drop while draggedElement is
\* null (the drag began outside this manager) and a drop where the id of
\* either card is not in the collection leave the collection, the order of
\* the cards and the stored value as they are, and write nothing.
C25_DropWithoutMoveIsNoOp ==
    [][ \A k \in 1..Len(container) :
          ( /\ Handler("drop")
            /\ lastOp'.card = k
            /\ \/ draggedElement = 0
               \/ draggedElement = k
               \/ draggedElement \in 1..Len(container)
                  /\ \/ \A i \in 1..Len(items) :
                          items[i].id # container[draggedElement].id
                     \/ \A i \in 1..Len(items) :
                          items[i].id # container[k].id )
          => /\ items' = items
             /\ Ids(container') = Ids(container)
             /\ storage' = storage
             /\ failures' = failures ]_vars

\* C25 witness: a card was dropped on itself while the stored value lagged
\* behind the collection (an earlier write had failed); it still lags.
C25_Witness ==
    /\ lastOp.op = "drop"
    /\ draggedElement # 0
    /\ lastOp.card = draggedElement
    /\ storage # Stringify(items)

\* C26: startEditing(id), called for a card in view mode, puts the card of
\* that item into editing mode with the raw url in its url field and
\* changes nothing else of any card; for an id that no item has, or whose
\* card is not mounted, it changes nothing.  (startEditing assigns to cards
\* only: the collection is not among its results.)
C26_StartEditingTouchesOneCard ==
    /\ \A k \in 1..Len(container) :
         LET itemId == container[k].id
             q == querySelector(container, itemId)
             i == findIndex(items, itemId)
         IN  (~container[k].editing /\ i # 0)
             => startEditing(container, items, itemId)
                  = [container EXCEPT ![q].editing = TRUE,
                                      ![q].url = items[i].url]
    /\ startEditing(container, items, "no such id") = container
    /\ \A i \in 1..Len(items) :
         querySelector(container, items[i].id) = 0
         => startEditing(container, items, items[i].id) = container

\* C27: after handleDragEnd no card of the container carries the class
\* dragging or the class drag-over and draggedElement is null; and while a
\* card is the dragged element it does not carry the class drag-over.
C27_DragMarksAreCleared ==
    [][ /\ Handler("dragend")
           => /\ draggedElement' = 0
              /\ \A k \in 1..Len(container') :
                   ~container'[k].dragging /\ ~container'[k].dragOver
        /\ draggedElement' # 0
           => ~container'[draggedElement'].dragOver ]_vars

\* Urls the validators are applied to: what a user may type, and urls whose
\* token stands in the host or occurs twice.
ValidatorUrls ==
    UrlInputs("site") \cup UrlInputs("engine")
    \cup { <<Scheme, QueryToken>>,
           <<QueryToken>>,
           <<Scheme, "a.com", "/", QueryToken, "/", QueryToken>>,
           <<Scheme, "a.com">> }

\* C28: the search-engine validator refuses every url without the {query}
\* token, also one that parses, and accepts a url that has the token and
\* parses once the token is substituted; the site validator accepts exactly
\* the urls that parse.  A saveEdit with non-empty fields leaves editing mode
\* exactly when the collection's validator accepts the trimmed url.
C28_ValidatorsAcceptExactly ==
    [][ /\ \A url \in ValidatorUrls :
             /\ ~Includes(url, QueryToken) => ~validateUrl("engine", url).ok
             /\ (Includes(url, QueryToken)
                    /\ CanParse(Replace(url, QueryToken, "test")))
                => validateUrl("engine", url).ok
             /\ validateUrl("site", url).ok <=> CanParse(url)
        /\ \A k \in 1..Len(container) :
             LET q == querySelector(container, container[k].id)
             IN  ( /\ SaveEditFrom(k)
                   /\ container[q].editing
                   /\ container[q].name \notin {<<>>, <<Space>>}
                   /\ container[q].url # <<>> )
                 => (container'[q].editing <=> FieldsRejected(container[q])) ]_vars

\* C28 witness: the search-engine collection refused a saveEdit whose url
\* parses but has no {query} token; the card is still being edited.
C28_Witness ==
    /\ kind = "engine"
    /\ lastOp.op = "saveEdit"
    /\ UniqueIds(items)
    /\ lastOp.card \in 1..Len(container)
    /\ container[lastOp.card].editing
    /\ container[lastOp.card].name # <<Space>>
    /\ ~Includes(container[lastOp.card].url, QueryToken)
    /\ CanParse(container[lastOp.card].url)

\* The step runs one of the operations that leave the collection alone:
\* startEditing, cancelEdit and every other key press that is not a save, a
\* rejected saveEdit, arming a delete, disarming it (by a key or by the
\* timer), a drop that returns early, drag start, enter, leave and end, an
\* export, an import that adds no entry.
NonMutatingStep ==
    \/ ops' = ops + 1
       /\ lastOp'.op \in {"startEditing", "armDelete", "dragstart", "dragenter",
                          "dragleave", "dragend", "exportToJSON"}
    \/ ops' = ops /\ lastOp'.op = "deleteTimeout"
    \/ \E k \in 1..Len(container) :
          /\ Handler("keydown")
          /\ lastOp'.card = k
          /\ ~(container[k].editing /\ lastOp'.arg[1] = "Enter" /\ lastOp'.arg[2] = "")
    \/ \E k \in 1..Len(container) :
          /\ SaveEditFrom(k)
          /\ container[querySelector(container, container[k].id)].editing
          /\ FieldsRejected(container[querySelector(container, container[k].id)])
    \/ \E k \in 1..Len(container) :
          /\ Handler("drop")
          /\ lastOp'.card = k
          /\ \/ draggedElement \in {0, k}
             \/ \A i \in 1..Len(items) : items[i].id # container[draggedElement].id
             \/ \A i \in 1..Len(items) : items[i].id # container[k].id
    \/ /\ Handler("importFromJSON")
       /\ lastOp'.card = 0
       /\ ~Threw(log')

\* C30: an operation that leaves the collection alone calls setItem not at
\* all and dispatches no itemsUpdated: the stored value stays as it is.
C30_NonMutatingOpsDoNotWrite ==
    [][ NonMutatingStep
        => /\ storage' = storage
           /\ failures' = failures
           /\ items' = items
           /\ \A e \in 1..Len(log') :
                log'[e].type \notin {"setItem", "itemsUpdated"} ]_vars

\* C30 witness: an import whose file held an entry but added none ran while
\* the stored value lagged behind the collection; it still lags.
C30_Witness ==
    /\ lastOp.op = "importFromJSON"
    /\ lastOp.card = 0
    /\ lastOp.arg # <<>>
    /\ ~Threw(log)
    /\ storage # Stringify(items)

\* The calls of handleSearch among the effects of a handler.
SearchCalls(effects) ==
    { e \in 1..Len(effects) : effects[e].type = "handleSearch" }

\* C29: at most one debounce timer is pending at any time; an input event
\* cancels the pending timer and schedules its own, and does not call
\* handleSearch itself; handleSearch is called only by the pending timer
\* when it fires, once, with the value the input has at that moment; and a
\* pending timer leads to that call unless a later input event cancelled
\* it, so a burst of input events is followed by exactly one call, after
\* its last event.
C29_SearchInputIsDebounced ==
    /\ [](Cardinality(searchTimers) <= 1)
    /\ [][ /\ Handler("searchInput")
               => /\ debounceTimer \notin searchTimers'
                  /\ debounceTimer' # debounceTimer
                  /\ searchTimers' = {debounceTimer'}
                  /\ SearchCalls(log') = {}
           /\ SearchCalls(log') # {}
               => /\ lastOp'.op = "debounce"
                  /\ searchTimers = {debounceTimer}
                  /\ lastOp'.card = debounceTimer
                  /\ searchTimers' = {}
                  /\ Cardinality(SearchCalls(log')) = 1
                  /\ \A e \in SearchCalls(log') : log'[e].items = inputValue
       ]_vars
    /\ \A id \in 1..MaxSearchOps :
         (id \in searchTimers)
         ~> \/ lastOp.op = "debounce" /\ lastOp.card = id /\ searchTimers = {}
            \/ debounceTimer > id /\ id \notin searchTimers

\* C29 witness: after a burst of at least two input events the timer of
\* the last one fired and handleSearch got the value the input had then;
\* the result list is shown with a match and the web-search entry.
C29_Witness ==
    /\ lastOp.op = "debounce"
    /\ debounceTimer >= 2
    /\ lastOp.card = debounceTimer
    /\ searchTimers = {}
    /\ inputValue = <<Space, "a">>
    /\ SearchCalls(log) # {}
    /\ \A e \in SearchCalls(log) : log[e].items = inputValue
    /\ ~resultsHidden
    /\ Len(results) >= 2

\* C31: as long as no setItem call has failed, a fresh manager constructed on
\* the same storage key loads the collection the first manager holds in
\* memory: the same items with the same ids in the same order, and the empty
\* collection, not the default set, when every item was deleted.
C31_ReloadEqualsMemory ==
    (phase = "ready" /\ failures = 0)
    => LET l == loadItems(kind, storage)
       IN  l.isArray /\ l.items = items

\* C32: in the search-engine collection every item's url contains the
\* {query} placeholder, whatever handlers have run.
C32_EngineUrlsHaveQueryToken ==
    (kind = "engine" /\ phase = "ready")
    => \A i \in 1..Len(items) : Includes(items[i].url, QueryToken)

\* The interaction state of the cards: mode, delete-armed state and the text
\* of the two fields, card by card.
Interaction(cont) ==
    [i \in 1..Len(cont) |->
        [id |-> cont[i].id, editing |-> cont[i].editing, armed |-> cont[i].armed,
         name |-> cont[i].name, url |-> cont[i].url]]

\* C33: a handler applied to one card leaves the mode, the delete-armed
\* state and the field text of every other card as they were: addNewItem
\* only appends a card; startEditing, saveEdit, cancelEdit and arming act on
\* the card they were invoked from; a confirmed delete removes that card and
\* nothing else; a drop only moves the dragged card.
C33_CardsAreIndependent ==
    [][ /\ Handler("addNewItem")
           => SubSeq(Interaction(container'), 1, Len(container))
                = Interaction(container)
        /\ \A k \in 1..Len(container) :
             ( /\ ops' = ops + 1
               /\ lastOp'.card = k
               /\ lastOp'.op \in {"startEditing", "saveEdit", "keydown", "armDelete"} )
             => /\ Len(container') = Len(container)
                /\ \A j \in 1..Len(container) :
                     j # k => Interaction(container')[j] = Interaction(container)[j]
        /\ \A k \in 1..Len(container) :
             (Handler("deleteItem") /\ lastOp'.card = k)
             => Interaction(container') = RemoveAt(Interaction(container), k)
        /\ \A k \in 1..Len(container) :
             (Handler("drop") /\ lastOp'.card = k)
             => \/ Interaction(container') = Interaction(container)
                \/ /\ draggedElement # 0
                   /\ Interaction(container')
                        = MoveBefore(Interaction(container), draggedElement, k)
       ]_vars

C35_CancelKeepsIcon ==
    [][ \A k \in 1..Len(container) :
          ( /\ Handler("keydown")
            /\ lastOp'.card = k
            /\ lastOp'.arg[1] = "Escape"
            /\ container[k].editing )
          => /\ items' = items
             /\ storage' = storage
             /\ Len(container') = Len(container)
             /\ \A j \in 1..Len(container) :
                  container'[j].icon = container[j].icon ]_vars

\* C35 witness: the stored site A got a new icon while its card was being
\* edited and the edit was then cancelled: the card is in view mode, and
\* card, collection and stored value all carry the new icon.
C35_Witness ==
    /\ lastOp.op = "keydown"
    /\ lastOp.arg[1] = "Escape"
    /\ UniqueIds(items)
    /\ storage = Stringify(items)
    /\ lastOp.card \in 1..Len(container)
    /\ ~container[lastOp.card].editing
    /\ container[lastOp.card].icon = "rocket"
    /\ \E i \in 1..Len(items) :
         /\ items[i].id = container[lastOp.card].id
         /\ items[i].name = <<"A">>
         /\ items[i].icon = "rocket"

\* Positions of the effects of one type in an effect list.
EffectsOf(effects, type) ==
    { e \in 1..Len(effects) : effects[e].type = type }

\* C36: every call of saveItems is followed, in the same handler, by one
\* itemsUpdated event dispatched when this.items already is the collection
\* that was to be written, also when setItem threw; when it threw, the
\* stored value is what it was before the call.
C36_EventAlsoWhenWriteFails ==
    [][ /\ \A e \in EffectsOf(log', "setItem") :
             /\ log'[e].items = items'
             /\ \E f \in EffectsOf(log', "itemsUpdated") :
                  f > e /\ log'[f].items = items'
        /\ Cardinality(EffectsOf(log', "itemsUpdated"))
             = Cardinality(EffectsOf(log', "setItem"))
        /\ failures' # failures
           => /\ storage' = storage
              /\ EffectsOf(log', "setItem") # {}
              /\ EffectsOf(log', "itemsUpdated") # {}
              /\ ~Threw(log') ]_vars

\* C36 witness: a confirmed delete whose write failed: the event carries the
\* shortened collection while the stored value still holds the deleted item.
C36_Witness ==
    /\ lastOp.op = "deleteItem"
    /\ failures = 1
    /\ EffectsOf(log, "console.error: Error saving items") # {}
    /\ \E f \in EffectsOf(log, "itemsUpdated") : log[f].items = items
    /\ storage.tag = "array"
    /\ Len(storage.items) = Len(items) + 1

\* The entries of the result list that carry the class highlighted.
Highlighted(res) == { i \in 1..Len(res) : res[i].highlighted }

\* A keydown of the given key in the search input.
SearchKey(key) ==
    /\ ops' = ops + 1
    /\ lastOp'.op = "searchKeydown"
    /\ lastOp'.arg = <<key>>

\* C37: a visible result list has at least one entry, the last being the
\* web-search entry, and exactly one highlighted entry, whose index is then
\* within the list; ArrowDown and ArrowUp on a visible list move the
\* highlight by one position, wrapping between the last and the first
\* entry; Home and End move it to the first and the last entry; no key
\* changes the entries themselves.
C37_HighlightStaysInList ==
    /\ [](~resultsHidden
            => /\ Len(results) >= 1
               /\ results[Len(results)].name[1] = "Search Google for"
               /\ Cardinality(Highlighted(results)) = 1
               /\ highlightedIndex(results) \in 1..Len(results))
    /\ [][ \A cur \in Highlighted(results) :
             LET n == Len(results)
             IN  /\ (SearchKey("ArrowDown") /\ ~resultsHidden)
                    => Highlighted(results') = {IF cur = n THEN 1 ELSE cur + 1}
                 /\ (SearchKey("ArrowUp") /\ ~resultsHidden)
                    => Highlighted(results') = {IF cur = 1 THEN n ELSE cur - 1}
                 /\ SearchKey("Home") => Highlighted(results') = {1}
                 /\ SearchKey("End") => Highlighted(results') = {n}
                 /\ lastOp'.op = "searchKeydown"
                    => /\ Len(results') = n
                       /\ \A i \in 1..n : results'[i].name = results[i].name
       ]_vars

\* C37 witness: ArrowUp was pressed while the first of two visible entries
\* was highlighted; the highlight is now on the last, the web-search entry.
C37_Witness ==
    /\ lastOp.op = "searchKeydown"
    /\ lastOp.arg = <<"ArrowUp">>
    /\ lastOp.card = 1
    /\ ~resultsHidden
    /\ Len(results) = 2
    /\ Highlighted(results) = {2}


CardIds(cs) == [i \in 1..Len(cs) |-> cs[i].id]

ImmediatelyBefore(s, a, b) == \E i \in 1..(Len(s) - 1) : s[i] = a /\ s[i + 1] = b

\* C38: in NanoStart the card order and the order of this.sites stay equal,
\* and after a drop on a different card the dragged site sits immediately
\* before the drop target in the container and in this.sites, whichever way
\* the card was dragged and whatever drops or deletes came before.
C38_DropKeepsCardsAndSitesEqual ==
    /\ CardIds(cards) = sites
    /\ (lastOp.op = "handleDrop" /\ lastOp.arg[1] # lastOp.arg[2])
         => /\ ImmediatelyBefore(CardIds(cards), lastOp.arg[1], lastOp.arg[2])
            /\ ImmediatelyBefore(sites, lastOp.arg[1], lastOp.arg[2])


Posted(r) == r \in 1..Len(requests) /\ requests[r].posted

Fulfilled(r) == r \in 1..Len(requests) /\ requests[r].promise.state = "fulfilled"

\* Request r is waiting with its listener and timer in place, or its promise
\* was resolved once, by a reply or by the timer, and its listener is gone.
WaitingOrResolvedOnce(r) ==
    LET request == requests[r]
        p == request.promise
    IN  /\ p.state \in {"pending", "fulfilled"}
        /\ p.state = "pending"
             => r \in listeners /\ r \in timeouts /\ p.settled = 0
                /\ request.output = "none"
        /\ p.state = "fulfilled"
             => /\ r \notin listeners
                /\ p.settled = 1
                /\ p.value \in {Reply(TRUE), Reply(FALSE), TimedOut}
                /\ p.value = TimedOut => r \notin timeouts
                /\ request.output = responseOutput(p.value)

\* Once fulfilled, a request is changed by nothing that arrives later.
ResolvedStaysResolved ==
    \A r \in 1..Len(requests) : Fulfilled(r) => requests'[r] = requests[r]

\* C39 as stated: every confirmed click waits on a promise that is resolved
\* exactly once, by the reply or by the timeout, with the listener removed,
\* and nothing arriving later changes it.
C39_ConfirmedRequestCompletes ==
    /\ [](\A r \in 1..Len(requests) : WaitingOrResolvedOnce(r))
    /\ [][ResolvedStaysResolved]_vars
    /\ \A r \in 1..MaxClicks : (r \in 1..Len(requests)) ~> Fulfilled(r)

\* C39, amended: every click confirmed while a service worker controls the
\* page waits on a promise that is resolved exactly once, by the reply or by
\* the timeout, with the listener removed, and nothing arriving later
\* changes it.
C39_PostedRequestCompletes ==
    /\ [](\A r \in 1..Len(requests) : Posted(r) => WaitingOrResolvedOnce(r))
    /\ [][ResolvedStaysResolved]_vars
    /\ \A r \in 1..MaxClicks : Posted(r) ~> Fulfilled(r)

\* The only request timed out, and the worker's reply to it was delivered
\* afterwards.
C39_Witness ==
    /\ Len(requests) = 1
    /\ Posted(1)
    /\ requests[1].promise.value = TimedOut
    /\ toWorker = 0
    /\ toClient = <<>>
    /\ lastOp.op = "message"

====
